---- MODULE Spec2Model ----
(***************************************************************************)
(* Model of the ADM log poller of Trace4Me:                                *)
(*   src/tracer/log_fetcher.py  poll_guild and its helpers                 *)
(*   src/tracer/adm_state.py    the persisted Poll State                   *)
(*   src/tracer/adm_buffer.py   the recent-line buffer                     *)
(*   src/bot.py                 the registry of poll loop tasks            *)
(*   src/tracer/tracker.py      append_point and the flush of its buffers  *)
(*                                                                         *)
(* Spec         one target's poll loop against a changing remote directory *)
(*              (one action per stretch of code between two awaits),       *)
(*              with stop, force-cancel and restart.                       *)
(* SpecDedup    one run of the poll loop fed arbitrary batches of lines.   *)
(* SpecMirror   the poll loop with its mirror followed, fed small batches, *)
(*              next to the mirror writes of the poller of another guild.  *)
(* SpecRegistry the start/stop/hot-reload handlers of bot.py interleaved   *)
(*              at their await points, over abstract loop tasks.           *)
(* SpecRegistryFair  the same with the timers of the event loop running.   *)
(* SpecConfig   the same handlers with the iterations of the loops and     *)
(*              with settings that change while loops run.                 *)
(* SpecState    set_guild_state called by the pollers of two guilds.       *)
(* SpecChooser  _choose_latest_adm applied to candidate lists.             *)
(* SpecScan     _list_adm_files applied to the answers of a server.        *)
(* SpecApi      the poll loop with the answers of the Nitrado API.         *)
(* SpecWrite    the mirror writes of two pollers on the file system.       *)
(* SpecRead     the poll loop with the answers to its range read followed. *)
(* SpecPartial  the poll loop against a log that is written in pieces.     *)
(* SpecTrack    tracer/tracker.py: the buffered track points of a player.  *)
(*                                                                         *)
(* The settings of the target (utils.ftp_config.get_ftp_config) are an     *)
(* input of the model: in the specifications of the poll loop a record is  *)
(* there when the loop runs; in those of the handlers the settings are a   *)
(* variable that is set and cleared from outside.                          *)
(***************************************************************************)
EXTENDS Integers, Sequences, FiniteSets, TLC

(***************************************************************************)
(* Bounds of the model.                                                    *)
(***************************************************************************)
\* total number of bytes present in the remote directory at any time
MaxBytes == 4
\* number of times the poll loop of the target is started (poll_guild runs)
MaxRuns == 2
\* capacity of the fingerprint window (MAX_SEEN_HASHES, 4000 in the source),
\* scaled down so that eviction happens within MaxBytes
MAX_SEEN_HASHES == 2
\* capacity of the recent-line buffer (AdmBuffer(max_remember=200) in the
\* source), scaled down; kept below MAX_SEEN_HASHES as in the source
MAX_REMEMBER == 1

\* the lines of one batch and the bytes one run of fetches may bring, when
\* the server sends arbitrary batches
MaxBatch == 2
MaxFetched == 6
\* number of poller tasks created, and of calls of stop_poll_for_guild that
\* are suspended at the same time
MaxTasks == 3
MaxHandlers == 2
\* MIRROR_MAX_LINES of log_fetcher.py, scaled down from 8000
MIRROR_MAX_LINES == 3
\* the number of versions of the settings of the guild
MaxSettings == 2
\* the longest candidate list handed to the chooser on its own
MaxListed == 3
\* the most entries a listing command answers with, when the scan is taken
\* on its own
MaxScanRows == 2
\* tracer/config.py MAX_POINTS_PER_PLAYER (5000 in the code)
MAX_POINTS_PER_PLAYER == 3
\* tracker.py _MAX_BUFFER_POINTS (10 in the code)
MAX_BUFFER_POINTS == 2
\* number of points append_point is called with
MaxPoints == 4

(***************************************************************************)
(* Values.                                                                 *)
(***************************************************************************)
None == "None"
NoSize == 0 - 1
NL == "\n"
SP == " "

\* what the remote server may append to a log file in one write
Chunks == { <<"a", NL>>, <<"b", NL>> }

\* remote file names: "A1" follows the naming convention
\* DayZServer_X1_x64_<timestamp>.ADM, "ZZ" is an *.ADM name that does not
Names == {"A1", "ZZ"}

\* the file the server writes log lines to
Written == "A1"

\* ADM_NAME_TS / _parse_name_ts: the timestamp embedded in a file name,
\* 0 standing for None (the name does not match)
ParseNameTs(name) ==
  CASE name = "A1" -> 1
    [] name = "A2" -> 2
    [] OTHER -> 0

\* the order of file names as Python compares strings
NameRank(name) ==
  CASE name = "A1" -> 1
    [] name = "A2" -> 2
    [] name = "YY" -> 3
    [] OTHER -> 4

\* modification times a server may report in an MLSD "modify" fact
\* (0: the fact is missing)
ModifyFacts == {0, 3}

(***************************************************************************)
(* Text helpers.                                                           *)
(***************************************************************************)
\* str.rstrip(): trailing whitespace removed
RECURSIVE Rstrip(_)
Rstrip(s) ==
  IF s = <<>> THEN s
  ELSE IF s[Len(s)] \in {SP, NL} THEN Rstrip(SubSeq(s, 1, Len(s) - 1))
  ELSE s

\* str.rstrip("\r\n"): trailing line-ending characters removed
RECURSIVE RstripEol(_)
RstripEol(s) ==
  IF s = <<>> THEN s
  ELSE IF s[Len(s)] = NL THEN RstripEol(SubSeq(s, 1, Len(s) - 1))
  ELSE s

\* _line_fingerprint: blake2b-64 of the right-trimmed line; the hash is taken
\* to be collision free, so the fingerprint is the trimmed content itself
LineFingerprint(s) == Rstrip(s)

\* str.splitlines(): cut at line ends, no empty last piece
RECURSIVE SplitAcc(_, _, _)
SplitAcc(text, cur, acc) ==
  IF text = <<>> THEN (IF cur = <<>> THEN acc ELSE Append(acc, cur))
  ELSE IF Head(text) = NL THEN SplitAcc(Tail(text), <<>>, Append(acc, cur))
  ELSE SplitAcc(Tail(text), Append(cur, Head(text)), acc)

SplitLines(text) == SplitAcc(text, <<>>, <<>>)

\* a byte that is no valid UTF-8
BAD == "?"

\* bytes.decode("utf-8", errors="ignore"): invalid bytes are dropped
Decode(blob) == SelectSeq(blob, LAMBDA c : c # BAD)

\* data[start:]
SliceFrom(data, start) == SubSeq(data, start + 1, Len(data))

(***************************************************************************)
(* De-duplication: poll_guild._remember_line and AdmBuffer.accept.         *)
(***************************************************************************)
\* the elements of a sequence
Range(q) == { q[i] : i \in 1..Len(q) }

\* _remember_line with the evicted fingerprint left in seen_set
RememberLine_NoDiscard(sq, ss, line) ==
  LET fp == LineFingerprint(line) IN
  IF fp \in ss THEN [ok |-> FALSE, sq |-> sq, ss |-> ss]
  ELSE LET sq1 == Append(sq, fp)
           ss1 == ss \cup {fp}
       IN IF Len(sq1) > MAX_SEEN_HASHES
          THEN [ok |-> TRUE, sq |-> Tail(sq1), ss |-> ss1]
          ELSE [ok |-> TRUE, sq |-> sq1, ss |-> ss1]

\* _remember_line with the oldest fingerprint kept and the newest dropped
RememberLine_EvictNewest(sq, ss, line) ==
  LET fp == LineFingerprint(line) IN
  IF fp \in ss THEN [ok |-> FALSE, sq |-> sq, ss |-> ss]
  ELSE IF Len(sq) + 1 > MAX_SEEN_HASHES
       THEN [ok |-> TRUE, sq |-> sq, ss |-> ss]
       ELSE [ok |-> TRUE, sq |-> Append(sq, fp), ss |-> ss \cup {fp}]

\* _remember_line(line): FALSE if the fingerprint is in the window, else it
\* is recorded and the oldest one is evicted when the window overflows
RememberLine(sq, ss, line) ==
  LET fp == LineFingerprint(line) IN
  IF fp \in ss THEN [ok |-> FALSE, sq |-> sq, ss |-> ss]
  ELSE LET sq1 == Append(sq, fp)
           ss1 == ss \cup {fp}
       IN IF Len(sq1) > MAX_SEEN_HASHES
          THEN [ok |-> TRUE, sq |-> Tail(sq1), ss |-> ss1 \ {Head(sq1)}]
          ELSE [ok |-> TRUE, sq |-> sq1, ss |-> ss1]

\* the append of a deque that was made without maxlen
DequeAppend_NoMaxlen(dq, x, n) == Append(dq, x)

\* deque(maxlen=n).append
DequeAppend(dq, x, n) ==
  IF Len(dq) + 1 > n THEN Tail(Append(dq, x)) ELSE Append(dq, x)

\* AdmBuffer.accept without the test for an empty line
Accept_NoEmptyTest(last, line0) ==
  LET line == RstripEol(line0) IN
  IF line \in Range(last) THEN [ok |-> FALSE, last |-> last]
  ELSE [ok |-> TRUE, last |-> DequeAppend(last, line, MAX_REMEMBER)]

\* AdmBuffer.accept(line)
Accept(last, line0) ==
  LET line == RstripEol(line0) IN
  IF line = <<>> THEN [ok |-> FALSE, last |-> last]
  ELSE IF line \in Range(last) THEN [ok |-> FALSE, last |-> last]
  ELSE [ok |-> TRUE, last |-> DequeAppend(last, line, MAX_REMEMBER)]

(***************************************************************************)
(* Remote Directory Scanner and Active File Chooser.                       *)
(* A listing row is [name, size, mtime]; mtime 0 stands for None.          *)
(***************************************************************************)
NoRows == [n \in {} |-> 0]

\* _list_adm_files, MLSD pass: mlsd = [ok, facts], facts[n] = [size, modify]
MlsdPass(mlsd) ==
  IF ~mlsd.ok THEN NoRows
  ELSE [n \in DOMAIN mlsd.facts |->
          [name |-> n, size |-> mlsd.facts[n].size,
           mtime |-> IF mlsd.facts[n].modify # 0 THEN mlsd.facts[n].modify
                     ELSE ParseNameTs(n)]]

\* _list_adm_files, NLST pass and LIST pass: a name not yet in `out` is added
\* with the size of ftp.size (sz) and the time parsed from its name
NamesPass(out, view, sz) ==
  IF ~view.ok THEN out
  ELSE [n \in (DOMAIN out) \cup view.names |->
          IF n \in DOMAIN out THEN out[n]
          ELSE [name |-> n, size |-> sz[n], mtime |-> ParseNameTs(n)]]

\* _list_adm_files: the union of the three listings, keyed by name
ListAdmFiles(mlsd, nlst, lst, sz) ==
  LET out == NamesPass(NamesPass(MlsdPass(mlsd), nlst, sz), lst, sz)
  IN { out[n] : n \in DOMAIN out }

\* str.lower() of a file name.  "A1", "A2": DayZServer_X1_x64_<time>.ADM;
\* "YY", "ZZ": other names in .ADM; "yy": a name in .adm; "TX": a name with
\* another extension
NameLower(name) ==
  CASE name = "A1" -> "a1"
    [] name = "A2" -> "a2"
    [] name = "YY" -> "yy"
    [] name = "ZZ" -> "zz"
    [] name = "TX" -> "tx"
    [] OTHER -> name

\* name.lower().endswith(".adm")
EndsWithAdm(name) == NameLower(name) \in {"a1", "a2", "yy", "zz"}

\* the position of the row of a name in out, 0 if there is none
Position(out, name) ==
  IF \E i \in 1..Len(out) : out[i].name = name
  THEN CHOOSE i \in 1..Len(out) : out[i].name = name
  ELSE 0

\* out[name] = row on a dict, which keeps its keys in insertion order
Put(out, row) ==
  IF Position(out, row.name) # 0
  THEN [out EXCEPT ![Position(out, row.name)] = row]
  ELSE Append(out, row)

\* out.setdefault(name, row) with the row of a later listing put in place of
\* the one that is there
SetDefault_Overwrites(out, row) == Put(out, row)

\* out.setdefault(name, row); also `if n not in out: out[n] = row`
SetDefault(out, row) ==
  IF Position(out, row.name) # 0 THEN out ELSE Append(out, row)

\* _list_adm_files, the loop of the MLSD pass over the entries
\* [name, type, size, modify] (modify 0: no such fact)
RECURSIVE MlsdLoop(_, _)
MlsdLoop(out, rows) ==
  IF rows = <<>> THEN out
  ELSE LET r == Head(rows) IN
       IF ~EndsWithAdm(r.name) \/ r.type # "file"
       THEN MlsdLoop(out, Tail(rows))
       ELSE MlsdLoop(Put(out, [name |-> r.name, size |-> r.size,
                               mtime |-> IF r.modify # 0 THEN r.modify
                                         ELSE ParseNameTs(r.name)]),
                     Tail(rows))

\* _list_adm_files, the loop of the NLST pass and of the LIST pass over the
\* names; size: what `ftp.size(n) or 0` gives, 0 when it raises
RECURSIVE NamesLoop(_, _, _)
NamesLoop(out, names, size) ==
  IF names = <<>> THEN out
  ELSE LET n == Head(names) IN
       IF ~EndsWithAdm(n) THEN NamesLoop(out, Tail(names), size)
       ELSE NamesLoop(SetDefault(out, [name |-> n, size |-> size,
                                       mtime |-> ParseNameTs(n)]),
                      Tail(names), size)

\* _list_adm_files(ftp): list(out.values()) after the three passes; a pass
\* whose listing command raises adds nothing
ListAdmFilesOf(mlsd, nlst, lst, nlst_size, lst_size) ==
  LET out1 == IF mlsd.ok THEN MlsdLoop(<<>>, mlsd.rows) ELSE <<>>
      out2 == IF nlst.ok THEN NamesLoop(out1, nlst.names, nlst_size) ELSE out1
  IN IF lst.ok THEN NamesLoop(out2, lst.names, lst_size) ELSE out2

\* the sort key of _choose_latest_adm: (mtime or name time or minimum, name)
RowTime(row) ==
  IF row.mtime # 0 THEN row.mtime ELSE ParseNameTs(row.name)

KeyLeq(a, b) ==
  \/ RowTime(a) < RowTime(b)
  \/ RowTime(a) = RowTime(b) /\ NameRank(a.name) <= NameRank(b.name)

\* _choose_latest_adm with the oldest candidate chosen
ChooseLatestAdm_Oldest(files) ==
  CHOOSE r \in files : \A o \in files : KeyLeq(r, o)

\* _choose_latest_adm(files), for a non-empty candidate set
ChooseLatestAdm(files) ==
  CHOOSE r \in files : \A o \in files : KeyLeq(o, r)

\* the key of a is greater than the key of b
KeyGreater(a, b) == KeyLeq(b, a) /\ ~KeyLeq(a, b)

\* max(files, key=key) with the protocol time left out of the key
RECURSIVE MaxRow_ByName(_, _)
MaxRow_ByName(best, rest) ==
  IF rest = <<>> THEN best
  ELSE MaxRow_ByName(IF NameRank(Head(rest).name) > NameRank(best.name)
                     THEN Head(rest) ELSE best, Tail(rest))

\* max(files, key=key) as Python computes it on a list: the first row of
\* the greatest key
RECURSIVE MaxRow(_, _)
MaxRow(best, rest) ==
  IF rest = <<>> THEN best
  ELSE MaxRow(IF KeyGreater(Head(rest), best) THEN Head(rest) ELSE best,
              Tail(rest))

\* _choose_latest_adm(files) on the list it is handed, not empty
ChooseLatestAdmOf(fl) == MaxRow(Head(fl), Tail(fl))

\* the chooser of poll_guild with the directory scan preferred to the hint
ChosenName_PreferScan(files, api_name) ==
  IF files # {} THEN ChooseLatestAdm(files).name ELSE api_name

\* the chooser of poll_guild with the hint used only next to candidates of
\* the scan
ChosenName_NeedsScan(files, api_name) ==
  IF files = {} THEN None
  ELSE IF api_name # None THEN api_name
  ELSE ChooseLatestAdm(files).name

\* the chooser of poll_guild: the API hint wins whenever present, else the
\* newest candidate of the scan, else None
ChosenName(files, api_name) ==
  IF api_name # None THEN api_name
  ELSE IF files # {} THEN ChooseLatestAdm(files).name
  ELSE None

\* the candidate table of poll_guild sorts the rows by
\* (mtime or name time or datetime.min); datetime.min is timezone-naive and
\* the other times are timezone-aware, so sorting a table that holds both
\* raises TypeError
CandidateTableRaises(files) ==
  \E r1, r2 \in files : RowTime(r1) = 0 /\ RowTime(r2) # 0

(***************************************************************************)
(* Nitrado API discovery: _nitrado_api_get_latest.                         *)
(* An answer of the API is [cred, list, entries, down, url]: the token,    *)
(* the service id and the directory are all set; the list request gives    *)
(* 200 ("ok"), another status ("http") or raises; the names of its         *)
(* entries; the download request likewise; its body holds a url.           *)
(* The result is [name, url, diag], url standing for: a url was returned.  *)
(***************************************************************************)
ApiUnavailable(diag) == [name |-> None, url |-> FALSE, diag |-> diag]

\* max(adm, key=_dt): the entry of the greatest name time, for a set of
\* names whose times differ
ApiLatest(adm) ==
  CHOOSE n \in adm : \A o \in adm : ParseNameTs(o) <= ParseNameTs(n)

\* _nitrado_api_get_latest returning the name it found when the request
\* for the download token did not succeed
NitradoApiGetLatest_NameWithoutUrl(a) ==
  IF ~a.cred THEN ApiUnavailable("disabled")
  ELSE IF a.list = "raises" THEN ApiUnavailable("exception")
  ELSE IF a.list = "http" THEN ApiUnavailable("list HTTP")
  ELSE LET adm == { n \in a.entries : EndsWithAdm(n) } IN
       IF adm = {} THEN ApiUnavailable("no ADM entries")
       ELSE IF a.down = "raises" THEN ApiUnavailable("exception")
       ELSE IF a.down = "http"
            THEN [name |-> ApiLatest(adm), url |-> FALSE,
                  diag |-> "download token HTTP"]
       ELSE IF ~a.url THEN ApiUnavailable("missing token url")
       ELSE [name |-> ApiLatest(adm), url |-> TRUE, diag |-> "ok"]

\* _nitrado_api_get_latest(cfg) on the answer a of the API
NitradoApiGetLatest(a) ==
  IF ~a.cred THEN ApiUnavailable("disabled")
  ELSE IF a.list = "raises" THEN ApiUnavailable("exception")
  ELSE IF a.list = "http" THEN ApiUnavailable("list HTTP")
  ELSE LET adm == { n \in a.entries : EndsWithAdm(n) } IN
       IF adm = {} THEN ApiUnavailable("no ADM entries")
       ELSE IF a.down = "raises" THEN ApiUnavailable("exception")
       ELSE IF a.down = "http" THEN ApiUnavailable("download token HTTP")
       ELSE IF ~a.url THEN ApiUnavailable("missing token url")
       ELSE [name |-> ApiLatest(adm), url |-> TRUE, diag |-> "ok"]

\* the result of the discovery for a hint, None: no credentials are set
ApiHint(api_name) ==
  IF api_name = None THEN ApiUnavailable("disabled")
  ELSE [name |-> api_name, url |-> TRUE, diag |-> "ok"]

(***************************************************************************)
(* Incremental Fetcher.                                                    *)
(***************************************************************************)
\* the commands _ftp_read_range_in_cwd sends before RETR: TYPE I once, REST
\* if start > 0, and TYPE I and REST once more after a 501/ASCII refusal
SentBeforeRetr(start, rest1) ==
  IF start = 0 THEN [types |-> 1, rests |-> 0]
  ELSE IF rest1 = "ascii" THEN [types |-> 2, rests |-> 2]
  ELSE [types |-> 1, rests |-> 1]

\* what _ftp_read_range_in_cwd gives back: raised, or the data returned;
\* sent: the TYPE I and REST commands that went to the server
ReadResult(raised_, data_, start, rest1) ==
  [raised |-> raised_, data |-> data_, sent |-> SentBeforeRetr(start, rest1)]

\* _ftp_read_range_in_cwd with REST without effect: the whole file is sent
FtpReadRangeInCwd_IgnoreRest(content, start, rest1, rest2, retr) ==
  IF start > 0 /\ rest1 = "perm" THEN ReadResult(TRUE, <<>>, start, rest1)
  ELSE IF start > 0 /\ rest1 = "ascii" /\ rest2 # "ok"
       THEN ReadResult(FALSE, <<>>, start, rest1)
  ELSE IF retr # "ok" THEN ReadResult(TRUE, <<>>, start, rest1)
  ELSE ReadResult(FALSE, content, start, rest1)

\* _ftp_read_range_in_cwd with a refused retry passed on to the caller
FtpReadRangeInCwd_RetryRaises(content, start, rest1, rest2, retr) ==
  IF start > 0 /\ rest1 = "perm" THEN ReadResult(TRUE, <<>>, start, rest1)
  ELSE IF start > 0 /\ rest1 = "ascii" /\ rest2 # "ok"
       THEN ReadResult(TRUE, <<>>, start, rest1)
  ELSE IF retr # "ok" THEN ReadResult(TRUE, <<>>, start, rest1)
  ELSE ReadResult(FALSE, SliceFrom(content, start), start, rest1)

\* _ftp_read_range_in_cwd(ftp, filename, start) on a file of the given
\* content. rest1, rest2: the server's answers to REST and to the retried
\* REST ("ok", "ascii": 501/ASCII mode refusal, "perm": another error_perm);
\* retr: the answer to RETR. Result: raised, or the data returned.
FtpReadRangeInCwd(content, start, rest1, rest2, retr) ==
  IF start > 0 /\ rest1 = "perm" THEN ReadResult(TRUE, <<>>, start, rest1)
  ELSE IF start > 0 /\ rest1 = "ascii" /\ rest2 # "ok"
       THEN ReadResult(FALSE, <<>>, start, rest1)
  ELSE IF retr # "ok" THEN ReadResult(TRUE, <<>>, start, rest1)
  ELSE ReadResult(FALSE, SliceFrom(content, start), start, rest1)

\* the switch of the active file with the offset kept
SwitchedOffset_Kept(latest_file_, chosen_name_, offset_) == offset_

\* the switch of the active file: the offset to go on with when chosen_name_
\* was chosen and latest_file_ was active
SwitchedOffset(latest_file_, chosen_name_, offset_) ==
  IF latest_file_ # chosen_name_ THEN 0 ELSE offset_

\* the truncation guard of poll_guild with the offset set to the size
GuardedOffset_ToSize(size_, offset_) ==
  IF size_ # NoSize /\ offset_ > size_ THEN size_ ELSE offset_

\* the truncation guard of poll_guild without the reset
GuardedOffset_NoReset(size_, offset_) == offset_

\* the truncation guard of poll_guild: the offset to fetch from, given the
\* size reported by SIZE (NoSize: no report)
GuardedOffset(size_, offset_) ==
  IF size_ # NoSize /\ offset_ > size_ THEN 0 ELSE offset_

\* the data to process of a download with nothing cut off
HttpTail_Whole(http_bytes, offset_) == http_bytes

\* data_to_process = http_bytes[offset:] if offset < http_size else b""
HttpTail(http_bytes, offset_) ==
  IF offset_ < Len(http_bytes) THEN SliceFrom(http_bytes, offset_) ELSE <<>>

\* if (not blob) and chosen_api_url: the HTTP fallback is tried
UseHttp(blob, chosen_api_url) == blob = <<>> /\ chosen_api_url

\* src_prefix = "api" if http_used else "ftp"
SrcPrefix(http_used) == IF http_used THEN "api" ELSE "ftp"

\* the offset after a non-empty fetch with the length of the download added
\* on the secondary path
AdvancedOffset_HttpAdds(offset_, blob_, full_fetch_used_, http_size_) ==
  IF full_fetch_used_ /\ http_size_ # NoSize THEN offset_ + http_size_
  ELSE offset_ + Len(blob_)

\* the offset after a non-empty fetch
AdvancedOffset(offset_, blob_, full_fetch_used_, http_size_) ==
  IF full_fetch_used_ /\ http_size_ # NoSize THEN http_size_
  ELSE offset_ + Len(blob_)

(***************************************************************************)
(* State.                                                                  *)
(***************************************************************************)
(* The mirror: a rolling tail of the accepted lines, kept in memory and    *)
(* written to two files.                                                   *)
(***************************************************************************)
\* "\n".join(lines)
RECURSIVE JoinNl(_)
JoinNl(ls) ==
  IF ls = <<>> THEN <<>>
  ELSE IF Len(ls) = 1 THEN ls[1]
  ELSE Head(ls) \o <<NL>> \o JoinNl(Tail(ls))

\* the text a mirror write puts into the files
MirrorText(tail) == JoinNl(tail) \o <<NL>>

\* the last n elements of a sequence: lines[-n:]
LastN(sq, n) == IF Len(sq) <= n THEN sq ELSE SubSeq(sq, Len(sq) - n + 1, Len(sq))

\* deque(maxlen = MIRROR_MAX_LINES).append for each element of lines
RECURSIVE AppendAll(_, _)
AppendAll(dq, lines) ==
  IF lines = <<>> THEN dq
  ELSE AppendAll(DequeAppend(dq, RstripEol(Head(lines)), MIRROR_MAX_LINES),
                 Tail(lines))

\* _load_tail_into_deque(path, dq, MIRROR_MAX_LINES); readable: the file is
\* there and can be read, otherwise the exception is swallowed
LoadTailIntoDeque(text, readable, dq) ==
  IF ~readable THEN dq
  ELSE AppendAll(dq, LastN(SplitLines(text), MIRROR_MAX_LINES))

\* the priming of mirror_tail when poll_guild starts: the default file
\* first, the file of the guild after it
MirrorPrime(m, r1, r2) ==
  IF ~m.on THEN m
  ELSE [m EXCEPT !.tail = LoadTailIntoDeque(m.own, r2,
                            LoadTailIntoDeque(m.default, r1, <<>>)),
                 !.dirty = FALSE]

\* the append to a mirror_tail that is a deque without maxlen
MirrorAppend_Unbounded(m, line) ==
  IF ~m.on THEN m
  ELSE [m EXCEPT !.tail = Append(m.tail, RstripEol(line)), !.dirty = TRUE]

\* mirror_tail.append(line.rstrip("\r\n")); mirror_dirty = True
MirrorAppend(m, line) ==
  IF ~m.on THEN m
  ELSE [m EXCEPT !.tail = DequeAppend(m.tail, RstripEol(line),
                                      MIRROR_MAX_LINES),
                 !.dirty = TRUE]

\* how a mirror write may end: both files written, or the first or the
\* second _atomic_write_text raises
WriteOutcomes == {"ok", "default_fails", "own_fails"}

\* the mirror write that empties mirror_tail once the files are written
MirrorFlush_DropsTail(m, w) ==
  IF ~m.on \/ ~m.dirty THEN m
  ELSE IF w = "default_fails" THEN m
  ELSE IF w = "own_fails" THEN [m EXCEPT !.default = MirrorText(m.tail)]
  ELSE [m EXCEPT !.default = MirrorText(m.tail), !.own = MirrorText(m.tail),
                 !.dirty = FALSE, !.tail = <<>>]

\* if mirror_dirty: write the default file, then the file of the guild, and
\* clear mirror_dirty; an exception on the way is swallowed
MirrorFlush(m, w) ==
  IF ~m.on \/ ~m.dirty THEN m
  ELSE IF w = "default_fails" THEN m
  ELSE IF w = "own_fails" THEN [m EXCEPT !.default = MirrorText(m.tail)]
  ELSE [m EXCEPT !.default = MirrorText(m.tail), !.own = MirrorText(m.tail),
                 !.dirty = FALSE]

(***************************************************************************)
VARIABLES
  \* the remote directory
  remote,        \* remote[n]: the bytes of file n
  \* data/adm_state.json, the entry of the target
  store,         \* [latest_file, offset]
  \* poll_guild: position and locals that live across iterations
  pc,            \* the await the loop is suspended at; "idle": not running;
                 \* "wake": in the sleep, the interval being over
  stop_event,    \* the asyncio.Event handed to the loop
  runs,          \* number of poll_guild calls so far
  ftp,           \* the connection the local ftp refers to: "none" before
                 \* the first one, "open", "closed"
  latest_file,
  offset,
  seen_queue,
  seen_set,
  last,          \* AdmBuffer.last
  cyc,           \* the locals of the current iteration
  \* history, for stating the properties
  hist,          \* the last MAX_SEEN_HASHES + 2 lines _remember_line accepted
                 \* in this run: [fp, disp], disp: handed to the callback
  steady,        \* the active file has only grown since it was chosen
  whole,         \* steady, the active file is the first one ever chosen,
                 \* every batch ended at a line end, no callback raised
  consumed,      \* the bytes processed since the active file was chosen
  handed,        \* the lines handed to the callback since then, over all runs
  primary_total, \* the bytes of consumed that came by the primary transport
  last_path,     \* transport of the last non-empty fetch: "ftp" or "http"
  event,         \* what the last step of the loop did
  mirror,        \* the rolling mirror of the accepted lines: [on, tail,
                 \* dirty, default, own]; tail, dirty: mirror_tail and
                 \* mirror_dirty of the loop; default, own: the text of
                 \* data/latest_adm.log and of data/latest_adm_<guild>.log,
                 \* <<>> for a file that is not there; on: the mirror is
                 \* followed (nothing in the loop reads it back after the
                 \* priming, so with on = FALSE it is left out as a whole)
  \* bot.py: the bookkeeping of the pollers of one guild.  A task and the
  \* stop event created with it carry the same number; 0 stands for no entry
  poll_tasks,    \* _poll_tasks[guild_id]
  poll_stops,    \* _poll_stops[guild_id]
  tasks,         \* tasks[k]: "none", "created", "looping" or "done"
  events,        \* events[k]: the stop event k is set
  created,       \* number of tasks created so far
  handlers,      \* handlers[h]: a call of stop_poll_for_guild suspended in
                 \* wait_for, [kind, task]; kind "idle": no such call
  op,            \* the handler that ran last
  settings,      \* the FTP settings of the guild as get_ftp_config gives
                 \* them: a version number, 0 for no settings
  task_cfg,      \* task_cfg[k]: cfg of poll_guild in task k, 0 before it ran
  used,          \* the settings the last iteration of a loop started with
  \* data/adm_state.json as a whole, for the pollers of several guilds
  state_file,    \* state_file[g]: the entry of guild g, [latest_file, offset]
  writer,        \* the guild of the last set_guild_state call, 0 for none
  \* _choose_latest_adm on its own
  listed,        \* the candidate list handed to the chooser
  picked,        \* the name of the row it returned
  \* _list_adm_files on its own
  listing,       \* what the server answered to MLSD, NLST, LIST and SIZE
  found,         \* the list _list_adm_files returned
  \* the mirror files on disk, written by the pollers of several guilds
  disk,          \* disk[path]: the text of the file, <<>> for no file
  wr,            \* wr[g]: where the poller of guild g is in its mirror
                 \* write, [pc, path, text]
  \* history of the last range read of the poll loop
  answers,       \* what the server answered and what the read gave back
  \* tracer/tracker.py, one player
  buffers,       \* _buffers[pid]: the queued points
  track_file,    \* the points in the track file of the player, <<>> also
                 \* for no file
  made           \* number of points queued so far

dedupVars == <<seen_queue, seen_set, last, hist>>
posVars == <<latest_file, offset, store>>
histVars == <<steady, whole, consumed, handed, primary_total, last_path>>
cfgVars == <<settings, task_cfg, used>>
regVars == <<poll_tasks, poll_stops, tasks, events, created, handlers, op,
             cfgVars>>
loopVars == <<remote, store, pc, stop_event, runs, ftp, latest_file, offset,
              seen_queue, seen_set, last, cyc, hist, steady, whole, consumed,
              handed, primary_total, last_path, event, mirror>>
stateVars == <<state_file, writer>>
chooserVars == <<listed, picked>>
scanVars == <<listing, found>>
writeVars == <<disk, wr>>
readVars == <<answers>>
trackVars == <<buffers, track_file, made>>
sideVars == <<stateVars, chooserVars, scanVars, writeVars, readVars,
              trackVars>>
vars == <<loopVars, regVars, sideVars>>

\* the locals of an iteration before it has assigned them
CycInit ==
  [api_name |-> None, latest_name |-> None, chosen_name |-> None,
   chosen_api_url |-> FALSE,
   size |-> NoSize, blob |-> <<>>, full_fetch_used |-> FALSE,
   http_size |-> NoSize, prev_offset |-> 0, pending |-> <<>>, idx |-> 0,
   line |-> <<>>, api_diag |-> "none", src_prefix |-> "none",
   \* history: one of the three listings of the scan gave an answer
   listed_ok |-> TRUE]

RECURSIVE SumLen(_, _)
SumLen(f, S) ==
  IF S = {} THEN 0
  ELSE LET n == CHOOSE x \in S : TRUE IN Len(f[n]) + SumLen(f, S \ {n})

TotalBytes == SumLen(remote, Names)

InitLoop ==
  /\ remote = [n \in Names |-> <<>>]
  /\ store = [latest_file |-> None, offset |-> 0]
  /\ pc = "idle"
  /\ stop_event = FALSE
  /\ runs = 0
  /\ ftp = "none"
  /\ latest_file = None
  /\ offset = 0
  /\ seen_queue = <<>>
  /\ seen_set = {}
  /\ last = <<>>
  /\ cyc = CycInit
  /\ hist = <<>>
  /\ steady = TRUE
  /\ whole = TRUE
  /\ consumed = <<>>
  /\ handed = <<>>
  /\ primary_total = 0
  /\ last_path = "none"
  /\ event = "none"
  /\ poll_tasks = 0
  /\ poll_stops = 0
  /\ tasks = [k \in 1..MaxTasks |-> "none"]
  /\ events = [k \in 1..MaxTasks |-> FALSE]
  /\ created = 0
  /\ handlers = [h \in 1..MaxHandlers |-> [kind |-> "idle", task |-> 0]]
  /\ op = "none"
  /\ settings = 0
  /\ task_cfg = [k \in 1..MaxTasks |-> 0]
  /\ used = 0

\* no mirror file is there
NoMirror(on_) ==
  [on |-> on_, tail |-> <<>>, dirty |-> FALSE, default |-> <<>>, own |-> <<>>]

\* the targets that have a poller
Guilds == {1, 2}

\* what get_guild_state makes of a guild without an entry
NoState == [latest_file |-> None, offset |-> 0]

\* no listing was asked for yet
NoListing ==
  [done |-> FALSE, mlsd |-> [ok |-> FALSE, rows |-> <<>>],
   nlst |-> [ok |-> FALSE, names |-> <<>>],
   lst |-> [ok |-> FALSE, names |-> <<>>], nlst_size |-> 0, lst_size |-> 0]

\* the mirror files: data/latest_adm.log ("D"), data/latest_adm_<guild>.log
\* ("G1", "G2"), and the temporary file next to each
MirrorPaths == {"D", "G1", "G2"}
DiskPaths == MirrorPaths \cup {"D.tmp", "G1.tmp", "G2.tmp"}

\* the poller is not in a mirror write
NotWriting == [pc |-> "idle", path |-> "D", text |-> <<>>]

\* no range read was followed yet
NoAnswers ==
  [asked |-> FALSE, start |-> 0, rest1 |-> "ok", rest2 |-> "ok",
   retr |-> "ok", out |-> ReadResult(FALSE, <<>>, 0, "ok"), http |-> "none"]

InitSide ==
  /\ disk = [f \in DiskPaths |-> <<>>]
  /\ wr = [g \in Guilds |-> NotWriting]
  /\ state_file = [g \in Guilds |-> NoState]
  /\ writer = 0
  /\ listed = <<>>
  /\ picked = None
  /\ listing = NoListing
  /\ found = <<>>
  /\ answers = NoAnswers
  /\ buffers = <<>>
  /\ track_file = <<>>
  /\ made = 0

Init == InitLoop /\ InitSide /\ mirror = NoMirror(FALSE)

\* the history of a file that is no longer followed
Forget ==
  /\ consumed' = <<>>
  /\ handed' = <<>>
  /\ primary_total' = 0
  /\ last_path' = "none"

(***************************************************************************)
(* The remote server.                                                      *)
(***************************************************************************)
\* the server appends to its log file
EnvAppend(c) ==
  /\ UNCHANGED <<regVars, sideVars, mirror>>
  /\ TotalBytes + Len(c) <= MaxBytes
  /\ remote' = [remote EXCEPT ![Written] = @ \o c]
  /\ UNCHANGED <<store, pc, stop_event, runs, ftp, latest_file, offset, cyc,
                 dedupVars, histVars, event>>

\* the log file is truncated (replaced by an empty file of the same name)
EnvTruncate ==
  /\ UNCHANGED <<regVars, sideVars, mirror>>
  /\ remote[Written] # <<>>
  /\ remote' = [remote EXCEPT ![Written] = <<>>]
  /\ IF latest_file = Written
     THEN steady' = FALSE /\ whole' = FALSE /\ Forget
     ELSE UNCHANGED histVars
  /\ UNCHANGED <<store, pc, stop_event, runs, ftp, latest_file, offset, cyc,
                 dedupVars, event>>

(***************************************************************************)
(* The poll loop: poll_guild.  Each action is the code from the completion *)
(* of one await up to the next await.                                      *)
(***************************************************************************)
\* set_guild_state that stores the filename and leaves the offset as it was
SetGuildState_NameOnly(g, latest_file_, offset_) ==
  [latest_file |-> IF latest_file_ # None THEN latest_file_ ELSE g.latest_file,
   offset |-> g.offset]

\* set_guild_state(guild_id, latest_file=..., offset=...) on the entry g
SetGuildState(g, latest_file_, offset_) ==
  [latest_file |-> IF latest_file_ # None THEN latest_file_ ELSE g.latest_file,
   offset |-> offset_]

\* the record of the lines the fingerprint window accepted in this run, the
\* last MAX_SEEN_HASHES + 2 of them
HistAppend(h, e) ==
  LET h1 == Append(h, e)
  IN IF Len(h1) > MAX_SEEN_HASHES + 2 THEN Tail(h1) ELSE h1

\* the dispatch loop of poll_guild, from the line at index s.idx up to the
\* next call of the callback (hit) or the end of the batch (~hit)
RECURSIVE DispatchNext(_)
DispatchNext(s) ==
  IF s.rest = <<>> THEN [s EXCEPT !.hit = FALSE, !.line = <<>>]
  ELSE LET line == Head(s.rest)
           r == RememberLine(s.sq, s.ss, line)
           b == Accept(s.last, line)
           nxt == [s EXCEPT !.rest = Tail(s.rest), !.idx = s.idx + 1]
       IN IF ~r.ok THEN DispatchNext(nxt)
          ELSE IF b.ok
               THEN [nxt EXCEPT !.sq = r.sq, !.ss = r.ss, !.last = b.last,
                                !.hist = HistAppend(s.hist,
                                           [fp |-> LineFingerprint(line),
                                            disp |-> TRUE]),
                                !.hit = TRUE, !.line = line]
               ELSE DispatchNext([nxt EXCEPT !.sq = r.sq, !.ss = r.ss,
                                   !.hist = HistAppend(s.hist,
                                              [fp |-> LineFingerprint(line),
                                               disp |-> FALSE])])

\* the dispatch loop counting its lines from the start again at each call
DispatchFrom_Recount(rest_, idx_) ==
  [rest |-> rest_, idx |-> 0, sq |-> seen_queue, ss |-> seen_set,
   last |-> last, hist |-> hist, hit |-> FALSE, line |-> <<>>]

\* the state of the dispatch loop: the lines still to come, the number of
\* lines gone through, the de-duplication state
DispatchFrom(rest_, idx_) ==
  [rest |-> rest_, idx |-> idx_, sq |-> seen_queue, ss |-> seen_set,
   last |-> last, hist |-> hist, hit |-> FALSE, line |-> <<>>]

\* the except clause of the iteration with the loop left
AfterFailure_Ends == "idle"

\* where the loop is suspended next when an exception ends an iteration:
\* the except clause of the iteration logs it and the sleep follows
AfterFailure == "sleep"

\* the locals when an iteration ends and the loop goes to sleep; those that
\* nothing reads before the next iteration assigns them are left out
AtSleep(c) ==
  [CycInit EXCEPT !.api_name = c.api_name, !.chosen_name = c.chosen_name,
                  !.full_fetch_used = c.full_fetch_used,
                  !.http_size = c.http_size]

\* the effect of the dispatch loop on the de-duplication state, and where
\* the loop is suspended next: in the callback, or in the sleep
Dispatched(d, c, whole_) ==
  /\ seen_queue' = d.sq
  /\ seen_set' = d.ss
  /\ last' = d.last
  /\ hist' = d.hist
  /\ IF d.hit
     THEN /\ pc' = "dispatch"
          /\ cyc' = [c EXCEPT !.pending = d.rest, !.idx = d.idx,
                              !.line = d.line]
          /\ handed' = IF whole_ THEN Append(handed, d.line) ELSE handed
          /\ mirror' = MirrorAppend(mirror, d.line)
     ELSE /\ pc' = "sleep"
          /\ cyc' = AtSleep(c)
          /\ \E w \in WriteOutcomes : mirror' = MirrorFlush(mirror, w)
          /\ UNCHANGED handed

\* bot.py start_poll_for_guild -> poll_guild: the locals are set up from the
\* persisted Poll State and the loop enters its first iteration
PollGuildStart ==
  /\ UNCHANGED <<regVars, sideVars>>
  /\ pc = "idle"
  /\ runs < MaxRuns
  /\ runs' = runs + 1
  /\ ftp' = "none"
  /\ stop_event' = FALSE
  /\ latest_file' = store.latest_file
  /\ offset' = store.offset
  /\ seen_queue' = <<>>
  /\ seen_set' = {}
  /\ last' = <<>>
  /\ hist' = <<>>
  /\ cyc' = CycInit
  /\ pc' = "connect"
  /\ event' = "start"
  /\ \E r1 \in BOOLEAN, r2 \in BOOLEAN : mirror' = MirrorPrime(mirror, r1, r2)
  /\ UNCHANGED <<remote, store, histVars>>

\* bot.py stop_poll_for_guild: the stop signal is set
Stop ==
  /\ UNCHANGED <<regVars, sideVars, mirror>>
  /\ pc # "idle"
  /\ ~stop_event
  /\ stop_event' = TRUE
  /\ UNCHANGED <<remote, posVars, pc, runs, ftp, cyc, dedupVars, histVars, event>>

\* bot.py stop_poll_for_guild: the loop did not exit within the timeout and
\* its task is cancelled at the await it is suspended at
Cancel ==
  /\ UNCHANGED <<regVars, sideVars, mirror>>
  /\ pc # "idle"
  /\ stop_event
  /\ pc' = "idle"
  /\ cyc' = CycInit
  /\ event' = "cancel"
  /\ UNCHANGED <<remote, posVars, stop_event, runs, ftp, dedupVars, histVars>>

\* a while condition that does not look at the stop event
LoopTop_Ignore(stop_event_) == "connect"

\* while not stop_event.is_set(): where the loop goes from the loop top
LoopTop(stop_event_) == IF stop_event_ THEN "idle" ELSE "connect"

\* asyncio.sleep(interval): the interval elapses and the loop is ready to
\* go on; the sleep does not look at the stop event
SleepElapse ==
  /\ UNCHANGED <<regVars, sideVars, mirror>>
  /\ pc = "sleep"
  /\ pc' = "wake"
  /\ UNCHANGED <<remote, posVars, stop_event, runs, ftp, cyc, dedupVars, histVars,
                 event>>

\* the sleep returns and the while condition is evaluated
SleepDone ==
  /\ UNCHANGED <<regVars, sideVars, mirror>>
  /\ pc = "wake"
  /\ pc' = LoopTop(stop_event)
  /\ cyc' = CycInit
  /\ event' = "none"
  /\ UNCHANGED <<remote, posVars, stop_event, runs, ftp, dedupVars, histVars>>

\* ftp = FTP(host) followed by ftp.login: the connection ftp refers to when
\* one of them raised; connected: FTP(host) returned and ftp was assigned
Connected(ftp_, connected) == IF connected THEN "open" ELSE ftp_

\* ftplib FTP.quit(): QUIT is sent and the connection closed when the
\* server answered; if sending raises, close() is not reached
Quit(ftp_, quit_ok) == IF quit_ok THEN "closed" ELSE ftp_

\* Connect with a failed connect or login handled like a failed change of
\* directory: a mirror write if one is due
Connect_FailureFlushes ==
  /\ UNCHANGED <<regVars, sideVars>>
  /\ pc = "connect"
  /\ \/ /\ pc' = "scan"
        /\ event' = "none"
        /\ ftp' = "open"
        /\ UNCHANGED mirror
     \/ /\ pc' = "sleep"
        /\ event' = "failed"
        /\ \E connected \in BOOLEAN : ftp' = Connected(ftp, connected)
        /\ \E w \in WriteOutcomes : mirror' = MirrorFlush(mirror, w)
  /\ UNCHANGED <<remote, posVars, stop_event, runs, cyc, dedupVars, histVars>>

\* connect, login, passive mode, binary mode, change of directory
Connect ==
  /\ UNCHANGED <<regVars, sideVars>>
  /\ pc = "connect"
  /\ \/ /\ pc' = "scan"
        /\ event' = "none"
        /\ ftp' = "open"
        /\ UNCHANGED mirror
     \/ \* FTP(host) raises, or login raises with the connection made
        /\ pc' = AfterFailure
        /\ event' = "failed"
        /\ \E connected \in BOOLEAN : ftp' = Connected(ftp, connected)
        /\ UNCHANGED mirror
     \/ \* cwd raises: QUIT, a mirror write if one is due, the sleep
        /\ pc' = "sleep"
        /\ event' = "cwd_failed"
        /\ ftp' = Quit(ftp, TRUE)
        /\ \E w \in WriteOutcomes : mirror' = MirrorFlush(mirror, w)
  /\ UNCHANGED <<remote, posVars, stop_event, runs, cyc, dedupVars, histVars>>

\* what the three listing commands may answer in one scan
EmptyFacts == [n \in {} |-> [size |-> 0, modify |-> 0]]

MlsdViews ==
  {[ok |-> FALSE, facts |-> EmptyFacts]} \cup
  { [ok |-> TRUE,
     facts |-> [n \in DOMAIN m |-> [size |-> Len(remote[n]), modify |-> m[n]]]] :
    m \in UNION { [S -> ModifyFacts] : S \in SUBSET Names } }

NameViews ==
  {[ok |-> FALSE, names |-> {}]} \cup
  { [ok |-> TRUE, names |-> S] : S \in {{}, Names} }

\* what _nitrado_api_get_latest may answer: no hint, or the name of a file
\* (with its download URL)
ApiHints == {None} \cup Names

\* the branch for no files and no hint with the offset set back
NoFilesFound_Resets(c) ==
  /\ pc' = "sleep"
  /\ cyc' = c
  /\ event' = "none"
  /\ ftp' = Quit(ftp, TRUE)
  /\ \E w \in WriteOutcomes : mirror' = MirrorFlush(mirror, w)
  /\ offset' = 0
  /\ store' = SetGuildState(store, latest_file, 0)
  /\ UNCHANGED <<latest_file, histVars>>

\* if not files and not api_name: QUIT, a mirror write if one is due, the
\* sleep, and the next iteration
NoFilesFound(c) ==
  /\ pc' = "sleep"
  /\ cyc' = c
  /\ event' = "none"
  /\ ftp' = Quit(ftp, TRUE)
  /\ \E w \in WriteOutcomes : mirror' = MirrorFlush(mirror, w)
  /\ UNCHANGED <<posVars, histVars>>

\* directory scan, API discovery, chooser, candidate table, switch of the
\* active file; the next await is the SIZE probe
ScanWith(mlsd, nlst, lst, api) ==
  /\ UNCHANGED <<regVars, sideVars>>
  /\ pc = "scan"
  /\   LET api_name == api.name
           sz == [n \in Names |-> Len(remote[n])]
           files == ListAdmFiles(mlsd, nlst, lst, sz)
           latest_name == IF files # {} THEN ChooseLatestAdm(files).name
                          ELSE None
           chosen_name == ChosenName(files, api_name)
           c == [CycInit EXCEPT !.api_name = api_name,
                                !.api_diag = api.diag,
                                !.listed_ok = mlsd.ok \/ nlst.ok \/ lst.ok,
                                !.latest_name = latest_name,
                                !.chosen_name = chosen_name]
       IN IF files = {} /\ api_name = None
          THEN NoFilesFound(c)
          ELSE IF (files # {} /\ CandidateTableRaises(files))
                  \/ chosen_name = None
          THEN \* the iteration ends in the exception handler
               /\ pc' = AfterFailure
               /\ cyc' = c
               /\ event' = "failed"
               /\ UNCHANGED <<posVars, histVars, mirror, ftp>>
          ELSE /\ pc' = "probe"
               /\ UNCHANGED <<mirror, ftp>>
               /\ cyc' = [c EXCEPT !.chosen_api_url =
                                     (api_name # None /\ api.url)]
               /\ IF latest_file # chosen_name
                  THEN /\ latest_file' = chosen_name
                       /\ offset' = SwitchedOffset(latest_file, chosen_name,
                                                   offset)
                       /\ store' = SetGuildState(store, chosen_name, offset')
                       /\ steady' = TRUE
                       /\ whole' = (latest_file = None)
                       /\ Forget
                       /\ event' = IF offset > 0 THEN "rotate" ELSE "switch"
                  ELSE /\ event' = "none"
                       /\ UNCHANGED <<posVars, histVars>>
  /\ UNCHANGED <<remote, stop_event, runs, dedupVars>>

Scan ==
  \E mlsd \in MlsdViews, nlst \in NameViews, lst \in NameViews,
     api_name \in ApiHints : ScanWith(mlsd, nlst, lst, ApiHint(api_name))

\* the scan of a directory that holds the one log file or nothing, listed
\* by MLSD without a modification time, with no hint from the API
ScanPlain ==
  \E S \in {{}, {Written}} :
     ScanWith([ok |-> TRUE,
               facts |-> [n \in S |-> [size |-> Len(remote[n]), modify |-> 0]]],
              [ok |-> FALSE, names |-> {}], [ok |-> FALSE, names |-> {}],
              ApiHint(None))

\* SIZE and MDTM of the active file, then the truncation guard; the next
\* await is the range read
Probe ==
  /\ UNCHANGED <<regVars, sideVars, mirror>>
  /\ pc = "probe"
  /\ \E size \in {NoSize, Len(remote[latest_file])} :
       /\ cyc' = [CycInit EXCEPT !.chosen_api_url = cyc.chosen_api_url,
                                 !.size = size]
       /\ offset' = GuardedOffset(size, offset)
       /\ IF size # NoSize /\ offset > size
          THEN /\ store' = SetGuildState(store, latest_file, offset')
               /\ event' = "reset"
          ELSE /\ event' = "none"
               /\ UNCHANGED store
  /\ pc' = "read"
  /\ UNCHANGED <<remote, latest_file, stop_event, runs, ftp, dedupVars, histVars>>

\* the last byte of a blob is a line end
EndsLine(blob) == blob # <<>> /\ blob[Len(blob)] = NL

\* from the completion of the last fetch of an iteration: QUIT (quit_ok, or
\* it raises and the iteration ends in the exception handler), then a
\* non-empty blob advances and persists the offset and is split into lines,
\* which are dispatched up to the first call of the callback.
\* track: the history of the active file is recorded
Process(c, quit_ok, track) ==
  /\ ftp' = Quit(ftp, quit_ok)
  /\ IF ~quit_ok \/ c.blob = <<>>
     THEN /\ pc' = IF quit_ok THEN "sleep" ELSE AfterFailure
          /\ cyc' = AtSleep(c)
          /\ event' = IF quit_ok THEN "none" ELSE "failed"
          /\ IF quit_ok
             THEN \E w \in WriteOutcomes : mirror' = MirrorFlush(mirror, w)
             ELSE UNCHANGED mirror
          /\ UNCHANGED <<posVars, dedupVars, histVars>>
     ELSE LET new_offset == AdvancedOffset(offset, c.blob, c.full_fetch_used,
                                           c.http_size)
              lines == SplitLines(Decode(c.blob))
              whole_ == track /\ whole /\ EndsLine(c.blob)
          IN /\ offset' = new_offset
             /\ store' = SetGuildState(store, latest_file, new_offset)
             /\ event' = "advance"
             /\ whole' = whole_
             /\ IF track
                THEN /\ consumed' = consumed \o c.blob
                     /\ primary_total' =
                          IF c.full_fetch_used THEN primary_total
                          ELSE primary_total + Len(c.blob)
                     /\ last_path' = IF c.full_fetch_used THEN "http" ELSE "ftp"
                ELSE UNCHANGED <<consumed, primary_total, last_path>>
             /\ Dispatched(DispatchNext(DispatchFrom(lines, 0)),
                           [c EXCEPT !.prev_offset = offset,
                                     !.src_prefix = SrcPrefix(c.full_fetch_used)],
                           whole_)
             /\ UNCHANGED <<latest_file, steady>>

\* the range read over FTP returns or raises; if it gave nothing and a
\* download URL is known the next await is the HTTP download, else QUIT
\* follows and the blob is processed
ReadWith(rest1, rest2, retr, quit_ok) ==
  /\ pc = "read"
  /\   LET r == FtpReadRangeInCwd(remote[latest_file], offset, rest1, rest2, retr)
           blob == IF r.raised THEN <<>> ELSE r.data
       IN IF UseHttp(blob, cyc.chosen_api_url)
          THEN /\ pc' = "http"
               /\ cyc' = [cyc EXCEPT !.blob = blob]
               /\ event' = "none"
               /\ UNCHANGED <<posVars, dedupVars, histVars, mirror, ftp>>
          ELSE Process([cyc EXCEPT !.blob = blob], quit_ok, steady)
  /\ UNCHANGED <<remote, stop_event, runs>>

Read ==
  /\ UNCHANGED <<regVars, sideVars>>
  /\ \E rest1 \in {"ok", "ascii", "perm"}, rest2 \in {"ok", "refused"},
        retr \in {"ok", "failed"}, quit_ok \in BOOLEAN :
       ReadWith(rest1, rest2, retr, quit_ok)

\* the HTTP download of the whole file returns (200) or fails; QUIT follows
\* and the blob is processed
HttpWith(ok, quit_ok) ==
  /\ pc = "http"
  /\ IF ok
     THEN LET http_bytes == remote[latest_file]
              http_size == Len(http_bytes)
          IN Process([cyc EXCEPT
                        !.http_size = http_size,
                        !.blob = HttpTail(http_bytes, offset),
                        !.full_fetch_used = TRUE,
                        !.size = http_size], quit_ok, steady)
     ELSE Process(cyc, quit_ok, steady)
  /\ UNCHANGED <<remote, stop_event, runs>>

Http ==
  /\ UNCHANGED <<regVars, sideVars>>
  /\ \E ok \in BOOLEAN, quit_ok \in BOOLEAN : HttpWith(ok, quit_ok)

\* the callback returns (or raises: the iteration ends in the exception
\* handler); the dispatch loop goes on with the rest of the batch
DispatchDone ==
  /\ UNCHANGED <<regVars, sideVars>>
  /\ pc = "dispatch"
  /\ \E ok \in BOOLEAN :
       IF ok
       THEN /\ Dispatched(DispatchNext(DispatchFrom(cyc.pending, cyc.idx)),
                          cyc, whole)
            /\ event' = "none"
            /\ UNCHANGED whole
       ELSE /\ pc' = AfterFailure
            /\ cyc' = AtSleep(cyc)
            /\ event' = "failed"
            /\ whole' = FALSE
            /\ UNCHANGED <<dedupVars, handed, mirror>>
  /\ UNCHANGED <<remote, posVars, stop_event, runs, ftp, steady, consumed,
                 primary_total, last_path>>

Next ==
  \/ \E c \in Chunks : EnvAppend(c)
  \/ EnvTruncate
  \/ PollGuildStart
  \/ Stop
  \/ Cancel
  \/ SleepElapse
  \/ SleepDone
  \/ Connect
  \/ Scan
  \/ Probe
  \/ Read
  \/ Http
  \/ DispatchDone

Spec == Init /\ [][Next]_vars

(***************************************************************************)
(* The poll loop fed by a server that may send anything: the range read    *)
(* returns an arbitrary batch of whole lines, with repeats, trailing       *)
(* blanks and empty lines.  The directory holds the one log file.          *)
(***************************************************************************)
\* the lines a batch is made of
DedupLines == { <<"a">>, <<"a", SP>>, <<"b">>, <<"c">>, <<>>, <<SP>> }

RECURSIVE JoinLines(_)
JoinLines(ls) ==
  IF ls = <<>> THEN <<>> ELSE Head(ls) \o <<NL>> \o JoinLines(Tail(ls))

DedupBlobs ==
  { JoinLines(ls) : ls \in UNION { [1..n -> DedupLines] : n \in 1..MaxBatch } }

\* the range read returns a batch out of blobs, QUIT follows and the blob
\* is processed
Fetch(blobs) ==
  /\ UNCHANGED <<regVars, sideVars>>
  /\ pc = "read"
  /\ \E blob \in blobs, quit_ok \in BOOLEAN :
       /\ offset + Len(blob) <= MaxFetched
       /\ Process([cyc EXCEPT !.blob = blob], quit_ok, FALSE)
  /\ UNCHANGED <<remote, stop_event, runs>>

FetchAny == Fetch(DedupBlobs)

\* one run of the poll loop
NextDedup ==
  \/ PollGuildStart
  \/ SleepElapse
  \/ SleepDone
  \/ Connect
  \/ ScanPlain
  \/ Probe
  \/ FetchAny
  \/ DispatchDone

SpecDedup == Init /\ [][NextDedup]_vars

(***************************************************************************)
(* The poll loop with its mirror followed, next to the poll loop of        *)
(* another guild: that one writes its own accepted lines to the default    *)
(* mirror file, data/latest_adm.log being the same path for every guild.   *)
(***************************************************************************)
\* mirror_tail of the poller of the other guild: a line of its own log
OtherTail == << <<"x">> >>

\* the mirror write of the poller of the other guild: the default file and
\* that guild's own file, which is not followed here
OtherFlush ==
  /\ UNCHANGED <<regVars, sideVars>>
  /\ mirror.on
  /\ mirror.default # MirrorText(OtherTail)
  /\ mirror' = [mirror EXCEPT !.default = MirrorText(OtherTail)]
  /\ UNCHANGED <<remote, posVars, pc, stop_event, runs, ftp, cyc, dedupVars,
                 histVars, event>>

\* the batches the server sends while the mirror is followed
MirrorBlobs == { JoinLines(<< <<"a">> >>), JoinLines(<< <<"b">> >>) }

FetchFew == Fetch(MirrorBlobs)

InitMirror == InitLoop /\ InitSide /\ mirror = NoMirror(TRUE)

NextMirror ==
  \/ PollGuildStart
  \/ Stop
  \/ Cancel
  \/ SleepElapse
  \/ SleepDone
  \/ Connect
  \/ ScanPlain
  \/ Probe
  \/ FetchFew
  \/ DispatchDone
  \/ OtherFlush

SpecMirror == InitMirror /\ [][NextMirror]_vars

(***************************************************************************)
(* The poll loop with the answers of the Nitrado API followed: the         *)
(* directory is listed by MLSD alone, which shows some of the files.       *)
(***************************************************************************)
ApiAnswers ==
  [cred : BOOLEAN, list : {"ok", "http", "raises"}, entries : SUBSET Names,
   down : {"ok", "http", "raises"}, url : BOOLEAN]

ScanApi ==
  \E S \in SUBSET Names, a \in ApiAnswers :
     ScanWith([ok |-> TRUE,
               facts |-> [n \in S |-> [size |-> Len(remote[n]), modify |-> 3]]],
              [ok |-> FALSE, names |-> {}], [ok |-> FALSE, names |-> {}],
              NitradoApiGetLatest(a))

NextApi ==
  \/ \E c \in Chunks : EnvAppend(c)
  \/ PollGuildStart
  \/ SleepElapse
  \/ SleepDone
  \/ Connect
  \/ ScanApi
  \/ Probe
  \/ Read
  \/ Http
  \/ DispatchDone

SpecApi == Init /\ [][NextApi]_vars

(***************************************************************************)
(* The poll loop with its range read followed: what the server answered to *)
(* REST, to the retried REST and to RETR, and what the read gave back.     *)
(***************************************************************************)
\* the scan of a directory that holds the one log file, listed by MLSD,
\* with the API naming the same file (with its download URL) or nothing
ScanHinted ==
  \E api_name \in {None, Written} :
     ScanWith([ok |-> TRUE,
               facts |-> [n \in {Written} |->
                            [size |-> Len(remote[n]), modify |-> 0]]],
              [ok |-> FALSE, names |-> {}], [ok |-> FALSE, names |-> {}],
              ApiHint(api_name))

ReadAnswered ==
  /\ UNCHANGED <<regVars, stateVars, chooserVars, scanVars, writeVars,
                 trackVars>>
  /\ \E rest1 \in {"ok", "ascii", "perm"}, rest2 \in {"ok", "refused"},
        retr \in {"ok", "failed"}, quit_ok \in BOOLEAN :
       /\ ReadWith(rest1, rest2, retr, quit_ok)
       /\ answers' = [asked |-> TRUE, start |-> offset, rest1 |-> rest1,
                      rest2 |-> rest2, retr |-> retr,
                      out |-> FtpReadRangeInCwd(remote[latest_file], offset,
                                                rest1, rest2, retr),
                      http |-> "none"]

\* what the HTTP download gave: it failed, or it was the whole file, with
\* bytes past the offset or with none
HttpGave(ok, http_bytes, offset_) ==
  IF ~ok THEN "failed"
  ELSE IF HttpTail(http_bytes, offset_) = <<>> THEN "empty" ELSE "bytes"

HttpAnswered ==
  /\ UNCHANGED <<regVars, stateVars, chooserVars, scanVars, writeVars,
                 trackVars>>
  /\ \E ok \in BOOLEAN, quit_ok \in BOOLEAN :
       /\ HttpWith(ok, quit_ok)
       /\ answers' = [answers EXCEPT
                        !.http = HttpGave(ok, remote[latest_file], offset)]

NextRead ==
  \/ \E c \in Chunks : EnvAppend(c)
  \/ PollGuildStart
  \/ SleepElapse
  \/ SleepDone
  \/ Connect
  \/ ScanHinted
  \/ Probe
  \/ ReadAnswered
  \/ HttpAnswered
  \/ DispatchDone

SpecRead == InitMirror /\ [][NextRead]_vars

(***************************************************************************)
(* The poll loop against a server that writes its log in pieces: a poll    *)
(* may find the file ending in the middle of a line.                       *)
(***************************************************************************)
\* what the server appends in one write: the beginning of a line, or the
\* rest of a line with its line end
Pieces == { <<"a">>, <<"b", NL>> }

NextPartial ==
  \/ \E c \in Pieces : EnvAppend(c)
  \/ PollGuildStart
  \/ SleepElapse
  \/ SleepDone
  \/ Connect
  \/ ScanPlain
  \/ Probe
  \/ Read
  \/ DispatchDone

SpecPartial == Init /\ [][NextPartial]_vars

(***************************************************************************)
(* tracer/tracker.py: append_point queues the points of a player in        *)
(* memory; _flush_pid moves the queue into the track_file file of the player.   *)
(* A queued point is [xz, n, gamertag]: the position, the number of the    *)
(* call it came with (standing for its time stamp), the helper field.      *)
(***************************************************************************)
\* the positions a point may have
Coords == {1, 2}

\* p.pop("gamertag", None): the point as it is written to the file
Stored(p) == [xz |-> p.xz, n |-> p.n]

\* the points of a queue as they are written
StoredAll(q) == [i \in 1..Len(q) |-> Stored(q[i])]

\* _flush_pid(pid) on the queue q and the file holding points; readable:
\* load_file gives the document, otherwise None and a new document is
\* made; writable: save_file returns, otherwise it raises and the
\* exception is logged
FlushPid(q, points, readable, writable) ==
  IF q = <<>> THEN [q |-> q, points |-> points]
  ELSE LET doc == IF readable THEN points ELSE <<>>
           all == LastN(doc \o StoredAll(q), MAX_POINTS_PER_PLAYER)
       IN [q |-> <<>>, points |-> IF writable THEN all ELSE points]

\* append_point: the position is the one of the last queued point, or,
\* with an empty queue, of the last point in the file
IsAdjacentDuplicate(q, points, xz, readable) ==
  IF q # <<>> THEN q[Len(q)].xz = xz
  ELSE readable /\ points # <<>> /\ points[Len(points)].xz = xz

\* append_point(gamertag, x, y, z, ...): the point is queued unless it
\* repeats the position before it; the queue is flushed when it has
\* reached _MAX_BUFFER_POINTS or when the flush interval is over (due)
AppendPoint ==
  /\ made < MaxPoints
  /\ \E xz \in Coords, peek \in BOOLEAN, due \in BOOLEAN,
        readable \in BOOLEAN, writable \in BOOLEAN :
       /\ ~IsAdjacentDuplicate(buffers, track_file, xz, peek)
       /\ LET q == Append(buffers, [xz |-> xz, n |-> made + 1,
                                    gamertag |-> TRUE])
              f == IF Len(q) >= MAX_BUFFER_POINTS \/ due
                   THEN FlushPid(q, track_file, readable, writable)
                   ELSE [q |-> q, points |-> track_file]
          IN /\ buffers' = f.q
             /\ track_file' = f.points
  /\ made' = made + 1
  /\ UNCHANGED <<loopVars, regVars, stateVars, chooserVars, scanVars,
                 writeVars, readVars>>

\* load_track and flush_all: the queue is flushed before the file is read
FlushNow ==
  /\ buffers # <<>>
  /\ \E readable \in BOOLEAN, writable \in BOOLEAN :
       LET f == FlushPid(buffers, track_file, readable, writable)
       IN /\ buffers' = f.q
          /\ track_file' = f.points
  /\ UNCHANGED made
  /\ UNCHANGED <<loopVars, regVars, stateVars, chooserVars, scanVars,
                 writeVars, readVars>>

NextTrack ==
  \/ AppendPoint
  \/ FlushNow

SpecTrack == Init /\ [][NextTrack]_vars

(***************************************************************************)
(* tracer/adm_state.py: the state file shared by the pollers of all        *)
(* guilds.  set_guild_state has no await in it, so a call of one poller    *)
(* runs from its load to its save before a call of another begins.         *)
(***************************************************************************)
\* _load(): the entries of the file, or {} when the file cannot be read
Load(file, readable) == IF readable THEN file ELSE [g \in Guilds |-> NoState]

\* _save(obj): the file afterwards; a failed write is swallowed
Save(file, obj, writable) == IF writable THEN obj ELSE file

\* set_guild_state(guild_id, latest_file=..., offset=...) on the file
SetGuildStateFile(file, guild_id, latest_file_, offset_, readable, writable) ==
  LET data == Load(file, readable)
      g == SetGuildState(data[guild_id], latest_file_, offset_)
  IN Save(file, [data EXCEPT ![guild_id] = g], writable)

\* the poller of a guild persists a position
SetGuildStateCall(guild_id) ==
  /\ \E latest_file_ \in Names, offset_ \in 0..MaxBytes,
        readable \in BOOLEAN, writable \in BOOLEAN :
       state_file' = SetGuildStateFile(state_file, guild_id, latest_file_,
                                       offset_, readable, writable)
  /\ writer' = guild_id
  /\ UNCHANGED <<loopVars, regVars, chooserVars, scanVars, writeVars, readVars,
                 trackVars>>

NextState == \E guild_id \in Guilds : SetGuildStateCall(guild_id)

SpecState == Init /\ [][NextState]_vars

(***************************************************************************)
(* _choose_latest_adm on its own, handed candidate lists as                *)
(* _list_adm_files makes them: one row for each name, in any order.        *)
(***************************************************************************)
\* file names: two that carry a timestamp, two that do not
ChooserNames == {"A1", "A2", "YY", "ZZ"}

\* the mtime of a row: 0 for None, or a time
RowTimes == {0, 2, 3}

CandidateRows == [name : ChooserNames, size : {0}, mtime : RowTimes]

\* the lists of up to MaxListed rows with names that differ
CandidateLists ==
  { fl \in UNION { [1..n -> CandidateRows] : n \in 1..MaxListed } :
      \A i, j \in 1..Len(fl) : i # j => fl[i].name # fl[j].name }

\* the chooser is handed a list, once in a behaviour
Choose ==
  /\ listed = <<>>
  /\ \E fl \in CandidateLists :
       /\ listed' = fl
       /\ picked' = ChooseLatestAdmOf(fl).name
  /\ UNCHANGED <<loopVars, regVars, stateVars, scanVars, writeVars, readVars,
                 trackVars>>

NextChooser == Choose

SpecChooser == Init /\ [][NextChooser]_vars

(***************************************************************************)
(* _list_adm_files on its own, against a server that answers each of the   *)
(* three listing commands with some entries or with an error.              *)
(***************************************************************************)
\* the names in the directory: a log, a log named in lower case without a
\* time, a file that is no log
ScanNames == {"A1", "yy", "TX"}

\* an entry of an MLSD answer: a file or a directory, with or without the
\* modify fact
MlsdRows == [name : ScanNames, type : {"file", "dir"}, size : {1},
             modify : {0, 3}]

\* the sequences over S of up to MaxScanRows elements
UpToRows(S) == UNION { [1..n -> S] : n \in 0..MaxScanRows }

\* no name comes twice in a listing
DistinctNames(names) ==
  \A i, j \in 1..Len(names) : i # j => names[i] # names[j]

MlsdAnswers ==
  {[ok |-> FALSE, rows |-> <<>>]} \cup
  { [ok |-> TRUE, rows |-> q] :
    q \in { r \in UpToRows(MlsdRows) :
             DistinctNames([i \in 1..Len(r) |-> r[i].name]) } }

NameAnswers ==
  {[ok |-> FALSE, names |-> <<>>]} \cup
  { [ok |-> TRUE, names |-> q] :
    q \in { r \in UpToRows(ScanNames) : DistinctNames(r) } }

\* the scan runs, once in a behaviour; SIZE answers 2 during the NLST pass
\* and 4 during the LIST pass (the file grows), or it fails
ListFiles ==
  /\ ~listing.done
  /\ \E mlsd \in MlsdAnswers, nlst \in NameAnswers, lst \in NameAnswers,
        size_ok \in BOOLEAN :
       LET nlst_size == IF size_ok THEN 2 ELSE 0
           lst_size == IF size_ok THEN 4 ELSE 0
       IN /\ listing' = [done |-> TRUE, mlsd |-> mlsd, nlst |-> nlst,
                         lst |-> lst, nlst_size |-> nlst_size,
                         lst_size |-> lst_size]
          /\ found' = ListAdmFilesOf(mlsd, nlst, lst, nlst_size, lst_size)
  /\ UNCHANGED <<loopVars, regVars, stateVars, chooserVars, writeVars, readVars,
                 trackVars>>

NextScan == ListFiles

SpecScan == Init /\ [][NextScan]_vars

(***************************************************************************)
(* The mirror write on the file system: _atomic_write_text step by step,   *)
(* as a reader of the files in another process sees it.  The pollers run   *)
(* on one event loop and the mirror write has no await in it, so a write   *)
(* of one poller begins only when no other poller is in one.               *)
(***************************************************************************)
\* _atomic_write_text writing into the file itself
TmpPath_InPlace(path) == path

\* tmp = f"{path}.tmp"
TmpPath(path) ==
  CASE path = "D" -> "D.tmp"
    [] path = "G1" -> "G1.tmp"
    [] path = "G2" -> "G2.tmp"

\* mirror_per_guild = f"data/latest_adm_{guild_id}.log"
MirrorPerGuild(g) == IF g = 1 THEN "G1" ELSE "G2"

\* the texts the poller of a guild writes: its mirror_tail at two moments
FlushTexts(g) ==
  IF g = 1 THEN { MirrorText(<< <<"a">> >>), MirrorText(<< <<"a">>, <<"b">> >>) }
  ELSE { MirrorText(OtherTail) }

\* if mirror_dirty: text = "\n".join(mirror_tail) + "\n", and the write of
\* the default file begins
FlushBegin(g) ==
  /\ \A o \in Guilds : wr[o].pc = "idle"
  /\ \E text \in FlushTexts(g) :
       wr' = [wr EXCEPT ![g] = [pc |-> "open", path |-> "D", text |-> text]]
  /\ UNCHANGED disk
  /\ UNCHANGED <<loopVars, regVars, stateVars, chooserVars, scanVars, readVars,
                 trackVars>>

\* open(tmp, "w"): the temporary file is created or emptied; or it raises
\* and the mirror write is given up
OpenTmp(g) ==
  /\ wr[g].pc = "open"
  /\ \/ /\ disk' = [disk EXCEPT ![TmpPath(wr[g].path)] = <<>>]
        /\ wr' = [wr EXCEPT ![g].pc = "write"]
     \/ /\ wr' = [wr EXCEPT ![g] = NotWriting]
        /\ UNCHANGED disk
  /\ UNCHANGED <<loopVars, regVars, stateVars, chooserVars, scanVars, readVars,
                 trackVars>>

\* f.write(text): the text reaches the temporary file a byte at a time; or
\* the write raises and the mirror write is given up
WriteTmp(g) ==
  /\ wr[g].pc = "write"
  /\ LET tmp == TmpPath(wr[g].path) IN
     /\ Len(disk[tmp]) < Len(wr[g].text)
     /\ \/ /\ disk' = [disk EXCEPT
                         ![tmp] = Append(@, wr[g].text[Len(disk[tmp]) + 1])]
           /\ UNCHANGED wr
        \/ /\ wr' = [wr EXCEPT ![g] = NotWriting]
           /\ UNCHANGED disk
  /\ UNCHANGED <<loopVars, regVars, stateVars, chooserVars, scanVars, readVars,
                 trackVars>>

\* the file is closed with all of the text in it
CloseTmp(g) ==
  /\ wr[g].pc = "write"
  /\ Len(disk[TmpPath(wr[g].path)]) >= Len(wr[g].text)
  /\ wr' = [wr EXCEPT ![g].pc = "replace"]
  /\ UNCHANGED disk
  /\ UNCHANGED <<loopVars, regVars, stateVars, chooserVars, scanVars, readVars,
                 trackVars>>

\* os.replace(tmp, path), or it raises; after the default file the file of
\* the guild is written, after that one the mirror write is done
ReplaceTmp(g) ==
  /\ wr[g].pc = "replace"
  /\ LET path == wr[g].path
         tmp == TmpPath(path)
     IN \/ /\ disk' = IF tmp = path THEN disk
                       ELSE [disk EXCEPT ![path] = disk[tmp], ![tmp] = <<>>]
           /\ wr' = IF path = "D"
                    THEN [wr EXCEPT ![g].pc = "open",
                                    ![g].path = MirrorPerGuild(g)]
                    ELSE [wr EXCEPT ![g] = NotWriting]
        \/ /\ wr' = [wr EXCEPT ![g] = NotWriting]
           /\ UNCHANGED disk
  /\ UNCHANGED <<loopVars, regVars, stateVars, chooserVars, scanVars, readVars,
                 trackVars>>

NextWrite ==
  \E g \in Guilds :
     \/ FlushBegin(g)
     \/ OpenTmp(g)
     \/ WriteTmp(g)
     \/ CloseTmp(g)
     \/ ReplaceTmp(g)

SpecWrite == Init /\ [][NextWrite]_vars

(***************************************************************************)
(* bot.py: starting and stopping the poller of one guild.  The handlers    *)
(* run on one event loop: a handler runs without interruption from one     *)
(* await to the next.                                                      *)
(***************************************************************************)
\* the bookkeeping as one record
Registry ==
  [poll_tasks |-> poll_tasks, poll_stops |-> poll_stops, tasks |-> tasks,
   events |-> events, created |-> created]

SetRegistry(r) ==
  /\ poll_tasks' = r.poll_tasks
  /\ poll_stops' = r.poll_stops
  /\ tasks' = r.tasks
  /\ events' = r.events
  /\ created' = r.created

\* start_poll_for_guild without the test for a running poller
StartPollForGuild_Always(r, cfg) ==
  IF ~cfg THEN r
  ELSE LET k == r.created + 1
       IN [r EXCEPT !.created = k, !.poll_stops = k, !.poll_tasks = k,
                    !.tasks[k] = "created"]

\* start_poll_for_guild(guild_id); cfg: get_ftp_config gives a record.
\* There is no await in it
StartPollForGuild(r, cfg) ==
  IF r.poll_tasks # 0 /\ r.tasks[r.poll_tasks] # "done" THEN r
  ELSE IF ~cfg THEN r
  ELSE LET k == r.created + 1
       IN [r EXCEPT !.created = k, !.poll_stops = k, !.poll_tasks = k,
                    !.tasks[k] = "created"]

\* stop_poll_for_guild, from the return of wait_for to the end
StopTail(r) == [r EXCEPT !.poll_stops = 0, !.poll_tasks = 0]

\* what follows stop_poll_for_guild in its caller: on_guild_remove returns,
\* _hot_reload_ftp starts the poller
AfterStop(r, kind, cfg) ==
  IF kind = "reload" THEN StartPollForGuild(StopTail(r), cfg) ELSE StopTail(r)

\* on_guild_join, start_polls: start_poll_for_guild
Join ==
  /\ LET r == StartPollForGuild(Registry, settings # 0)
     IN r.created <= MaxTasks /\ SetRegistry(r)
  /\ op' = "join"
  /\ UNCHANGED <<handlers, cfgVars, loopVars, sideVars>>

\* on_guild_remove ("remove") or _hot_reload_ftp ("reload"): the call of
\* stop_poll_for_guild up to its await, or to its end if it does not wait
StopBegin(h, kind) ==
  /\ handlers[h].kind = "idle"
  /\ LET ev == poll_stops
         task == poll_tasks
         r == [Registry EXCEPT
                 !.events = IF ev # 0 THEN [@ EXCEPT ![ev] = TRUE] ELSE @]
     IN IF task # 0 /\ tasks[task] # "done"
        THEN /\ handlers' = [handlers EXCEPT ![h] = [kind |-> kind,
                                                      task |-> task]]
             /\ SetRegistry(r)
        ELSE /\ LET r2 == AfterStop(r, kind, settings # 0)
                IN r2.created <= MaxTasks /\ SetRegistry(r2)
             /\ UNCHANGED handlers
  /\ op' = kind
  /\ UNCHANGED <<cfgVars, loopVars, sideVars>>

\* a wait_for whose timeout leaves the task running
WaitTimeout_NoCancel(h) ==
  /\ handlers[h].kind # "idle"
  /\ tasks[handlers[h].task] # "done"
  /\ op' = "timeout"
  /\ UNCHANGED <<poll_tasks, poll_stops, tasks, events, created, handlers,
                 cfgVars, loopVars, sideVars>>

\* wait_for runs into its timeout: the task is cancelled at the await it is
\* suspended at; neither poll_guild nor _runner catches the cancellation
WaitTimeout(h) ==
  /\ handlers[h].kind # "idle"
  /\ tasks[handlers[h].task] # "done"
  /\ tasks' = [tasks EXCEPT ![handlers[h].task] = "done"]
  /\ op' = "timeout"
  /\ UNCHANGED <<poll_tasks, poll_stops, events, created, handlers, cfgVars,
                 loopVars, sideVars>>

\* wait_for returns, the task being done: the rest of stop_poll_for_guild
\* and of its caller
StopResume(h) ==
  /\ handlers[h].kind # "idle"
  /\ tasks[handlers[h].task] = "done"
  /\ LET r == AfterStop(Registry, handlers[h].kind, settings # 0)
     IN r.created <= MaxTasks /\ SetRegistry(r)
  /\ handlers' = [handlers EXCEPT ![h] = [kind |-> "idle", task |-> 0]]
  /\ op' = "resume"
  /\ UNCHANGED <<cfgVars, loopVars, sideVars>>

\* the task runs for the first time: poll_guild reads the settings into
\* cfg and enters its loop (ok), or returns (no settings), or raises before
\* the loop (caught by _runner)
TaskBegin(k) ==
  /\ tasks[k] = "created"
  /\ \E ok \in BOOLEAN :
       IF ok /\ settings # 0
       THEN /\ tasks' = [tasks EXCEPT ![k] = "looping"]
            /\ task_cfg' = [task_cfg EXCEPT ![k] = settings]
       ELSE /\ tasks' = [tasks EXCEPT ![k] = "done"]
            /\ UNCHANGED task_cfg
  /\ op' = "begin"
  /\ UNCHANGED <<poll_tasks, poll_stops, events, created, handlers, settings,
                 used, loopVars, sideVars>>

\* an iteration with the settings read again at its start
IterationConfig_Reread(cfg, settings_) == settings_

\* the settings an iteration works with: cfg["host"], cfg["username"], ...
\* of the cfg read before the loop
IterationConfig(cfg, settings_) == cfg

\* the loop finds its stop event not set and starts an iteration
TaskIterate(k) ==
  /\ tasks[k] = "looping"
  /\ ~events[k]
  /\ used' = IterationConfig(task_cfg[k], settings)
  /\ op' = "iterate"
  /\ UNCHANGED <<poll_tasks, poll_stops, tasks, events, created, handlers,
                 settings, task_cfg, loopVars, sideVars>>

\* the loop finds its stop event set and poll_guild returns
TaskExit(k) ==
  /\ tasks[k] = "looping"
  /\ events[k]
  /\ tasks' = [tasks EXCEPT ![k] = "done"]
  /\ op' = "exit"
  /\ UNCHANGED <<poll_tasks, poll_stops, events, created, handlers, cfgVars,
                 loopVars, sideVars>>

\* the settings of the guild are saved or cleared (cogs/admin_ftp.py); the
\* ftp_config_updated event it dispatches is handled by _hot_reload_ftp in
\* a later step
SetFtpConfig(v) ==
  /\ settings # v
  /\ settings' = v
  /\ op' = "config"
  /\ UNCHANGED <<poll_tasks, poll_stops, tasks, events, created, handlers,
                 task_cfg, used, loopVars, sideVars>>

NextRegistry ==
  \/ Join
  \/ \E h \in 1..MaxHandlers : StopBegin(h, "remove")
  \/ \E h \in 1..MaxHandlers : StopBegin(h, "reload")
  \/ \E h \in 1..MaxHandlers : WaitTimeout(h)
  \/ \E h \in 1..MaxHandlers : StopResume(h)
  \/ \E k \in 1..MaxTasks : TaskBegin(k)
  \/ \E k \in 1..MaxTasks : TaskExit(k)
  \/ \E v \in 0..1 : SetFtpConfig(v)

SpecRegistry == Init /\ [][NextRegistry]_vars

\* the same with the timers of the event loop running: a wait_for that can
\* time out does, and a handler whose wait is over goes on
SpecRegistryFair ==
  /\ SpecRegistry
  /\ \A h \in 1..MaxHandlers :
       WF_vars(WaitTimeout(h)) /\ WF_vars(StopResume(h))

\* the poller of one guild with the iterations of its loop, settings that
\* are changed while the loop runs, and the hot reload that restarts it
NextConfig ==
  \/ Join
  \/ StopBegin(1, "reload")
  \/ WaitTimeout(1)
  \/ StopResume(1)
  \/ \E k \in 1..MaxTasks : TaskBegin(k)
  \/ \E k \in 1..MaxTasks : TaskIterate(k)
  \/ \E k \in 1..MaxTasks : TaskExit(k)
  \/ \E v \in 0..MaxSettings : SetFtpConfig(v)

SpecConfig == Init /\ [][NextConfig]_vars

(***************************************************************************)
(* Properties of the poll loop.                                            *)
(***************************************************************************)
\* the lines of the consumed bytes that carry a fingerprint, and how often a
\* fingerprint was handed to the callback
Count(fp) ==
  Cardinality({ i \in 1..Len(handed) : LineFingerprint(handed[i]) = fp })

ConsumedFingerprints ==
  { LineFingerprint(l) : l \in Range(SplitLines(Decode(consumed))) } \ {<<>>}

\* C2: whenever poll loops were stopped, cancelled and restarted from the
\* persisted state in any way, and the loop is not in the middle of a batch,
\* every distinct non-empty line of the bytes the offset has passed over has
\* been handed to the callback exactly once
C2_ExactlyOnceAcrossRestarts ==
  (whole /\ steady /\ pc # "dispatch") =>
     \A fp \in ConsumedFingerprints : Count(fp) = 1

\* a step that changes the active file, in memory or in the persisted
\* state, is the switch of the scan, with offset 0 in memory and persisted
C3_Step ==
  (\/ store'.latest_file # store.latest_file
   \/ (pc = "scan" /\ latest_file' # latest_file))
  => /\ pc = "scan" /\ pc' = "probe"
     /\ latest_file' = cyc'.chosen_name
     /\ offset' = 0
     /\ store' = [latest_file |-> latest_file', offset |-> 0]

\* C3: a step that changes the active file, in memory or in the persisted
\* state, is the switch of the scan: it sets the offset to 0, persists the
\* new name together with offset 0, and leaves the loop before the size
\* probe, so before any read of the new file; the persisted state never
\* pairs a new name with a non-zero offset
C3_RotationResetsOffset == [][C3_Step]_vars

C3_Witness ==
  /\ event = "rotate" /\ pc = "probe" /\ offset = 0
  /\ store = [latest_file |-> latest_file, offset |-> 0]

\* the probe reports a size below the stored offset
SizeBelowOffset == pc = "probe" /\ cyc'.size # NoSize /\ cyc'.size < offset

\* C4 as stated: when the reported size is below the stored offset the
\* offset is reset to 0 and persisted and the cycle ends without a fetch
C4_ResetWithoutFetch ==
  [][SizeBelowOffset =>
       /\ offset' = 0
       /\ store' = [latest_file |-> latest_file, offset |-> 0]
       /\ pc' = "sleep"]_vars

\* C4 as the code has it: when the reported size is below the stored offset
\* the offset is reset to 0 and persisted, and the range read of the same
\* cycle is issued next, from offset 0
C4_ResetThenFetch ==
  [][SizeBelowOffset =>
       /\ offset' = 0
       /\ store' = [latest_file |-> latest_file, offset |-> 0]
       /\ pc' = "read"]_vars

C4_Witness ==
  /\ event = "reset" /\ pc = "read" /\ offset = 0 /\ store.offset = 0
  /\ cyc.size # NoSize

\* C5 as stated: after successful fetches of a file that only grew, the
\* offset is the number of bytes ever received over the primary path when
\* that path was used last, and the total length the secondary download
\* reported when that one was used last
C5_OffsetIsPathTotal ==
  steady =>
    /\ last_path = "ftp" => offset = primary_total
    /\ (last_path = "http" /\ event = "advance") => offset = cyc.http_size

\* C5 as the code has it: after successful fetches of a file that only
\* grew, the offset is the number of bytes processed from it, whatever path
\* brought them (so at least the bytes received over the primary path), and
\* right after a secondary download it is the total length that download
\* reported
C5_OffsetIsBytesProcessed ==
  steady =>
    /\ offset = Len(consumed)
    /\ primary_total <= offset
    /\ (last_path = "http" /\ event = "advance") => offset = cyc.http_size

C5_Witness ==
  /\ steady /\ event = "advance" /\ last_path = "ftp"
  /\ primary_total > 0 /\ primary_total < offset

\* C6: for an active file that only grew since it was chosen, the spans
\* processed by the fetches, put one after the other, are the first offset
\* bytes of the file: no byte twice, no byte left out
C6_SpansContiguous ==
  (latest_file # None /\ steady) =>
     /\ offset <= Len(remote[latest_file])
     /\ consumed = SubSeq(remote[latest_file], 1, offset)

C6_Witness ==
  /\ steady /\ pc = "dispatch" /\ event = "advance"
  /\ cyc.prev_offset > 0 /\ offset > cyc.prev_offset
  /\ consumed = remote[latest_file]

\* C7 as stated: the offset is never negative and never above the size last
\* reported for the active file
C7_OffsetWithinLastSize ==
  /\ offset >= 0
  /\ cyc.size # NoSize => offset <= cyc.size

\* C7 as the code has it: the offset is never negative, and when the range
\* read is issued it is not above the size the probe of that cycle reported
C7_OffsetWithinProbedSize ==
  /\ offset >= 0
  /\ (pc = "read" /\ cyc.size # NoSize) => offset <= cyc.size

C7_Witness ==
  /\ pc = "read" /\ cyc.size # NoSize /\ offset > 0 /\ offset = cyc.size
  /\ Len(remote[latest_file]) > cyc.size

Alive == { k \in 1..MaxTasks : tasks[k] = "looping" }

\* C9: whatever the order of start, stop, hot reload, join and remove, at
\* most one poll loop of the guild is alive
C9_AtMostOneLoop == Cardinality(Alive) <= 1

\* C10: a call of start_poll_for_guild from on_guild_join or start_polls
\* while the registered task is not done creates no task and leaves the
\* registered task and stop event, and every task and event, as they are
C10_StartIsNoOp ==
  [][(op' = "join" /\ poll_tasks # 0 /\ tasks[poll_tasks] # "done")
       => UNCHANGED <<poll_tasks, poll_stops, tasks, events, created>>]_vars

C10_Witness ==
  /\ op = "join" /\ poll_tasks # 0 /\ tasks[poll_tasks] = "looping"
  /\ ~events[poll_stops] /\ created = 1

\* C11: once the loop is in its iteration loop no failure inside an iteration
\* ends it: a failed iteration goes to the sleep, the sleep of a loop that was
\* not told to stop is followed by a new iteration, and the loop is left only
\* with the stop signal set (at the loop top or by the cancellation that
\* follows the stop)
C11_FailureNeverTerminates ==
  [][ /\ (event' \in {"failed", "cwd_failed"} /\ pc \notin {"idle", "sleep", "wake"}) =>
           pc' = "sleep"
      /\ (pc = "wake" /\ ~stop_event /\ pc' # "wake") => pc' = "connect"
      /\ (pc # "idle" /\ pc' = "idle") => stop_event ]_vars

\* a failed iteration of a loop that was not told to stop has slept
C11_Witness == pc = "wake" /\ event = "failed" /\ ~stop_event /\ runs = 1

\* C13 as stated: with the stop signal set during the sleep the loop makes
\* no further connect, fetch, dispatch or state write, and it leaves from the
\* sleep itself, the interval never running out on it
C13_StopEndsSleep ==
  [][ (stop_event /\ pc \in {"sleep", "wake"}) =>
        /\ pc' \in {"sleep", "wake", "idle"}
        /\ <<store, offset, latest_file>>' = <<store, offset, latest_file>>
        /\ Len(handed') <= Len(handed)
        /\ pc = "sleep" => pc' \in {"sleep", "idle"} ]_vars

\* C13: with the stop signal set during the sleep the loop makes no further
\* connect, fetch, dispatch or state write; it leaves at the loop top after
\* the interval is over, or before that only by the cancellation of its task
C13_StopStartsNoIteration ==
  [][ (stop_event /\ pc \in {"sleep", "wake"}) =>
        /\ pc' \in {"sleep", "wake", "idle"}
        /\ <<store, offset, latest_file>>' = <<store, offset, latest_file>>
        /\ Len(handed') <= Len(handed)
        /\ pc' = "idle" => (pc = "wake" \/ event' = "cancel") ]_vars

\* the stop signal is set and the interval is over: the loop is about to
\* see the signal at the loop top
C13_Witness == stop_event /\ pc = "wake" /\ handed # <<>>

\* C14: a cycle whose connect or login fails changes nothing: the active
\* file and the offset in memory and in the store, both de-duplication
\* layers and the mirror (in memory and on disk) are as before, and the loop
\* is in the sleep
C14_ConnectFailureChangesNothing ==
  [][ (pc = "connect" /\ event' = "failed") =>
        /\ <<latest_file, offset, store>>' = <<latest_file, offset, store>>
        /\ <<seen_queue, seen_set, last>>' = <<seen_queue, seen_set, last>>
        /\ mirror' = mirror
        /\ pc' = "sleep" ]_vars

\* a connect failed in a loop that had read bytes, remembered lines and
\* had a mirror write due
C14_Witness ==
  /\ pc = "sleep" /\ event = "failed" /\ cyc = CycInit
  /\ offset > 0 /\ seen_set # {} /\ last # <<>>
  /\ mirror.dirty /\ mirror.own # <<>> /\ mirror.own # MirrorText(mirror.tail)

\* C17: the mirror of a target belongs to its own loop: no line the poller
\* of the other guild accepted is in the mirror of this guild, neither in
\* mirror_tail nor in the file of the guild
C17_MirrorOwnedByTarget ==
  /\ \A i \in 1..Len(mirror.tail) : mirror.tail[i] \notin Range(OtherTail)
  /\ \A l \in Range(SplitLines(mirror.own)) : l \notin Range(OtherTail)

C15_ConfigReadEveryIteration ==
  [][ op' = "iterate" => (settings # 0 /\ used' = settings) ]_vars

\* C15: the settings are read once, when poll_guild starts: a loop is
\* entered only with settings there, cfg stays what was read then, and
\* every iteration of a running loop works with that cfg
C15_ConfigReadAtStart ==
  [][ /\ op' = "iterate" =>
           \E k \in 1..MaxTasks : /\ tasks[k] = "looping"
                                   /\ task_cfg[k] # 0
                                   /\ used' = task_cfg[k]
      /\ \A k \in 1..MaxTasks :
           /\ (tasks[k] = "created" /\ tasks'[k] = "looping") =>
                 (settings # 0 /\ task_cfg'[k] = settings)
           /\ (tasks[k] = "created" /\ settings = 0) => tasks'[k] # "looping"
           /\ tasks[k] = "looping" => task_cfg'[k] = task_cfg[k] ]_vars

\* an iteration started with settings that had been replaced since the
\* loop began
C15_Witness == op = "iterate" /\ used = 1 /\ settings = 2

\* C16: a write of the position of one guild leaves the persisted position
\* of every other guild as it was
C16_OtherTargetsUntouched ==
  [][ \A g \in Guilds : g # writer' => state_file'[g] = state_file[g] ]_vars

\* the dispatch loop run on a batch that is one empty line, from the
\* de-duplication state the loop is in
OnEmptyLine == DispatchNext(DispatchFrom(<< <<>> >>, 0))

\* C18 as stated: an empty line is not handed to the callback (and so not
\* appended to the mirror) and neither the recent-line buffer nor the
\* fingerprint window records anything for it
C18_EmptyLineNotRecorded ==
  pc # "idle" =>
    /\ ~OnEmptyLine.hit
    /\ OnEmptyLine.last = last
    /\ OnEmptyLine.sq = seen_queue /\ OnEmptyLine.ss = seen_set

\* C18: an empty line is not handed to the callback (and so not appended to
\* the mirror) and the recent-line buffer records nothing for it; the
\* fingerprint window takes in the fingerprint of the empty content, as for
\* any line, unless it holds it already
C18_EmptyLineRejected ==
  pc # "idle" =>
    /\ ~OnEmptyLine.hit
    /\ OnEmptyLine.last = last
    /\ IF <<>> \in seen_set
       THEN OnEmptyLine.sq = seen_queue /\ OnEmptyLine.ss = seen_set
       ELSE /\ OnEmptyLine.sq = DequeAppend(seen_queue, <<>>, MAX_SEEN_HASHES)
            /\ OnEmptyLine.ss = Range(OnEmptyLine.sq)

\* an empty line went through the dispatch loop: the fingerprint window
\* took it in and it was not handed on
C18_Witness ==
  /\ pc = "sleep" /\ <<>> \in seen_set /\ last # <<>>
  /\ \E i \in 1..Len(hist) : hist[i].fp = <<>> /\ ~hist[i].disp

\* the lines of the batch being dispatched
BatchLines == SplitLines(Decode(cyc.blob))

\* C19: the calls of the callback for one batch follow the order of the
\* lines in the fetched text: each call hands over the line at its index,
\* the index grows from call to call, and the file name and the batch start
\* offset (the offset before the batch advanced it) are the same in all
C19_BatchOrder ==
  [][ /\ (pc \in {"read", "http"} /\ pc' = "dispatch") =>
           /\ cyc'.prev_offset = offset
           /\ cyc'.idx \in 1..Len(BatchLines')
           /\ cyc'.line = BatchLines'[cyc'.idx]
      /\ (pc = "dispatch" /\ pc' = "dispatch" /\ cyc' # cyc) =>
           /\ cyc'.idx > cyc.idx
           /\ cyc'.idx \in 1..Len(BatchLines)
           /\ cyc'.line = BatchLines[cyc'.idx]
           /\ cyc'.blob = cyc.blob
           /\ cyc'.prev_offset = cyc.prev_offset
           /\ latest_file' = latest_file ]_vars

\* the second line of a batch is in the callback, the first one having
\* been handed over before it
C19_Witness ==
  /\ pc = "dispatch" /\ cyc.idx = 2 /\ Len(handed) = 2
  /\ handed[2] = cyc.line /\ handed[1] # handed[2]
  /\ offset = cyc.prev_offset + Len(cyc.blob)

\* the time of a candidate: the protocol modification time if there is
\* one, else the time in its name, else the minimum
TimeOf(row) ==
  IF row.mtime # 0 THEN row.mtime
  ELSE IF ParseNameTs(row.name) # 0 THEN ParseNameTs(row.name)
  ELSE 0

\* the rows of a list in another order
Permuted(fl, p) == [i \in 1..Len(fl) |-> fl[p[i]]]

Reorderings(n) ==
  { p \in [1..n -> 1..n] : \A i, j \in 1..n : i # j => p[i] # p[j] }

\* C20: the chooser returns the one candidate of the greatest (time, name)
\* pair, a tie on the time going to the greatest name; the order of the
\* list does not matter, and with no time to be had for any candidate the
\* greatest name is returned
C20_ChooserPicksGreatest ==
  listed # <<>> =>
    LET rows == Range(listed)
        r == CHOOSE x \in rows : x.name = picked
    IN /\ \E x \in rows : x.name = picked
       /\ \A o \in rows :
            \/ TimeOf(o) < TimeOf(r)
            \/ TimeOf(o) = TimeOf(r) /\ NameRank(o.name) <= NameRank(r.name)
       /\ \A p \in Reorderings(Len(listed)) :
            ChooseLatestAdmOf(Permuted(listed, p)).name = picked
       /\ (\A o \in rows : TimeOf(o) = 0) =>
            \A o \in rows : NameRank(o.name) <= NameRank(picked)
       /\ ChooseLatestAdm(rows).name = picked

\* three candidates, the first of them the greatest by name, and the one
\* returned is another: it ties on the time with a third and wins by name
C20_Witness ==
  /\ Len(listed) = 3
  /\ \A i \in 2..3 : NameRank(listed[i].name) < NameRank(listed[1].name)
  /\ picked # listed[1].name
  /\ \E i, j \in 1..3 :
       /\ listed[j].name = picked /\ i # j
       /\ TimeOf(listed[i]) = TimeOf(listed[j])
       /\ listed[i].mtime = 0 /\ listed[j].mtime # 0

\* C21: a scan that finds no candidate, with no hint from the API, chooses
\* no file: the loop goes from the scan straight to the sleep, with no fetch
\* and no line dispatched, and the active file and the offset are as before,
\* in memory and in the store
C21_NothingFoundChangesNothing ==
  [][ (/\ pc = "scan" /\ pc' # "scan" /\ event' # "cancel"
       /\ cyc'.latest_name = None /\ cyc'.api_name = None) =>
        /\ pc' = "sleep"
        /\ cyc'.chosen_name = None
        /\ <<latest_file, offset, store>>' = <<latest_file, offset, store>>
        /\ <<consumed, handed>>' = <<consumed, handed>>
        /\ <<seen_queue, seen_set, last>>' = <<seen_queue, seen_set, last>>
    ]_vars

\* a loop that had followed a file and read from it found nothing in a scan
C21_Witness ==
  /\ pc = "sleep" /\ event = "none" /\ cyc.chosen_name = None
  /\ latest_file # None /\ offset > 0 /\ store.offset = offset

\* the names a listing command reported under the log extension
MlsdNamed ==
  IF listing.mlsd.ok
  THEN { r.name : r \in { x \in Range(listing.mlsd.rows) : EndsWithAdm(x.name) } }
  ELSE {}

NlstNamed ==
  IF listing.nlst.ok
  THEN { n \in Range(listing.nlst.names) : EndsWithAdm(n) } ELSE {}

ListNamed ==
  IF listing.lst.ok
  THEN { n \in Range(listing.lst.names) : EndsWithAdm(n) } ELSE {}

\* the names MLSD reported under the log extension as files
MlsdFiles ==
  IF listing.mlsd.ok
  THEN { r.name : r \in { x \in Range(listing.mlsd.rows) :
                            EndsWithAdm(x.name) /\ x.type = "file" } }
  ELSE {}

\* the entry of MLSD for a name
MlsdRowOf(n) == CHOOSE r \in Range(listing.mlsd.rows) : r.name = n

\* the result has one row for each name of `first`, `second` and `third`,
\* with the size and the time of the first of them that has the name
ScanIsUnion(first, second, third) ==
  /\ \A i, j \in 1..Len(found) : i # j => found[i].name # found[j].name
  /\ { found[i].name : i \in 1..Len(found) } = first \cup second \cup third
  /\ \A i \in 1..Len(found) :
       LET row == found[i] IN
       IF row.name \in first
       THEN /\ row.size = MlsdRowOf(row.name).size
            /\ row.mtime = IF MlsdRowOf(row.name).modify # 0
                           THEN MlsdRowOf(row.name).modify
                           ELSE ParseNameTs(row.name)
       ELSE /\ row.size = IF row.name \in second THEN listing.nlst_size
                          ELSE listing.lst_size
            /\ row.mtime = ParseNameTs(row.name)

\* C22 as stated: the scan returns one row for each name in .adm (in any
\* case) that MLSD, NLST or LIST reported, with the size and the time of the
\* first of the three that reported the name; a listing that failed takes
\* nothing away from the others
C22_ScanIsUnionOfReported ==
  listing.done => ScanIsUnion(MlsdNamed, NlstNamed, ListNamed)

\* C22: the scan returns one row for each name in .adm (in any case) that
\* MLSD reported as a file or that NLST or LIST reported, with the size and
\* the time of the first of the three that gave the name in this way; a
\* listing that failed takes nothing away from the others
C22_ScanIsUnionOfFiles ==
  listing.done => ScanIsUnion(MlsdFiles, NlstNamed, ListNamed)

\* LIST failed; one log came from MLSD and from NLST, another from NLST
\* alone, and MLSD reported a file that is no log
C22_Witness ==
  /\ listing.done /\ ~listing.lst.ok /\ Len(found) = 2
  /\ MlsdFiles \cap NlstNamed # {}
  /\ NlstNamed \ MlsdFiles # {}
  /\ \E r \in Range(listing.mlsd.rows) : r.name = "TX"

\* the step is a scan in which MLSD, NLST and LIST all failed
BlindScan ==
  pc = "scan" /\ pc' # "scan" /\ event' # "cancel" /\ ~cyc'.listed_ok

\* the step chooses no file, fetches and dispatches nothing and leaves the
\* position as it is, and the loop sleeps
EndsEarly ==
  /\ pc' = "sleep"
  /\ cyc'.chosen_name = None
  /\ <<latest_file, offset, store>>' = <<latest_file, offset, store>>
  /\ <<consumed, handed>>' = <<consumed, handed>>
  /\ <<seen_queue, seen_set, last>>' = <<seen_queue, seen_set, last>>

\* C23 as stated: when all three listings fail the cycle ends early in the
\* sleep, with no file chosen, no fetch and no change of state, with or
\* without a hint from the API
C23_BlindScanEndsCycle == [][ BlindScan => EndsEarly ]_vars

\* C23: when all three listings fail the scan gives an empty candidate
\* list: without a hint from the API the cycle ends early in the sleep, with
\* no file chosen, no fetch and no change of state; with a hint the file of
\* the hint is chosen and the cycle goes on to its probe
C23_BlindScanIsEmptyScan ==
  [][ BlindScan =>
        IF cyc'.api_name = None THEN EndsEarly
        ELSE /\ pc' = "probe"
             /\ cyc'.chosen_name = cyc'.api_name
             /\ latest_file' = cyc'.api_name
             /\ store'.latest_file = cyc'.api_name ]_vars

\* all three listings failed in a loop that had followed a file and read
\* from it, and there was no hint
C23_Witness ==
  /\ pc = "sleep" /\ event = "none" /\ ~cyc.listed_ok
  /\ cyc.api_name = None /\ cyc.chosen_name = None
  /\ latest_file # None /\ offset > 0

\* the step is a scan whose API discovery gave no hint
ScanWithoutHint ==
  pc = "scan" /\ pc' # "scan" /\ event' # "cancel" /\ cyc'.api_diag # "ok"

\* C24: when the API discovery is unavailable (credentials missing, a
\* request without success or raising, no log among the entries, no url)
\* the cycle is that of the directory scan alone: the file chosen is the
\* newest candidate of the scan (none without candidates), the active file
\* changes and the offset is reset only when that file is not the active
\* one, and the fetch uses the primary transport only
C24_UnavailableIsScanOnly ==
  [][ /\ ScanWithoutHint =>
           /\ cyc'.api_name = None
           /\ cyc'.chosen_name = cyc'.latest_name
           /\ ~cyc'.chosen_api_url
           /\ IF pc' = "probe"
              THEN /\ latest_file' = cyc'.latest_name
                   /\ offset' = IF latest_file = cyc'.latest_name THEN offset
                                ELSE 0
              ELSE <<latest_file, offset, store>>' = <<latest_file, offset, store>>
      /\ (pc \in {"probe", "read"} /\ ~cyc.chosen_api_url) =>
           /\ pc' # "http"
           /\ pc' \in {"probe", "read"} => ~cyc'.chosen_api_url ]_vars

\* the API had named a file but gave no download token, and the loop went
\* on with the file of the scan from the offset it had reached
C24_Witness ==
  /\ pc = "probe" /\ cyc.api_diag = "download token HTTP"
  /\ latest_file = Written /\ offset > 0

\* the bytes of a sequence from index start (counted from 0) to its end
FromIndex(data, start) ==
  IF start < Len(data) THEN [i \in 1..(Len(data) - start) |-> data[start + i]]
  ELSE <<>>

\* C25: a cycle that uses the HTTP fallback (and is not ended by an error
\* after the download) processes the bytes of the downloaded object from
\* index offset to its end, none if the offset is at or beyond its length;
\* the lines of the batch are handed over under the tag of the API, those of
\* a batch read over FTP under the tag of FTP; the fallback is tried only
\* with a download url at hand and after a primary read that gave no byte
C25_FallbackSlicesDownload ==
  [][ /\ (pc = "http" /\ cyc'.full_fetch_used /\ event' \notin {"failed", "cancel"}) =>
           LET expected == FromIndex(remote[latest_file], offset) IN
           IF expected = <<>>
           THEN /\ pc' = "sleep" /\ event' = "none"
                /\ <<offset, consumed, handed>>' = <<offset, consumed, handed>>
           ELSE /\ event' = "advance"
                /\ offset' = Len(remote[latest_file])
                /\ steady => consumed' = consumed \o expected
                /\ pc' = "dispatch" =>
                      cyc'.blob = expected /\ cyc'.src_prefix = "api"
      /\ (pc = "read" /\ pc' = "dispatch") => cyc'.src_prefix = "ftp"
      /\ (pc = "dispatch" /\ pc' = "dispatch") =>
           cyc'.src_prefix = cyc.src_prefix
      /\ pc' = "http" =>
           /\ cyc'.chosen_api_url /\ cyc'.blob = <<>>
           /\ ~cyc'.full_fetch_used ]_vars

\* the fallback brought the rest of a file of which a part had been read
\* before, and a line of it is in the callback
C25_Witness ==
  /\ pc = "dispatch" /\ cyc.full_fetch_used /\ cyc.src_prefix = "api"
  /\ cyc.prev_offset > 0 /\ cyc.blob # <<>>
  /\ Len(cyc.blob) < cyc.http_size /\ offset = cyc.http_size

\* C26: a mirror file changes only by being replaced as a whole: from one
\* instant to the next its content is what it was, or it is the complete
\* text of the mirror write going on, also with the pollers of two guilds
\* writing the default file in turn
C26_MirrorReplacedWhole ==
  [][ \A f \in MirrorPaths :
        \/ disk'[f] = disk[f]
        \/ \E g \in Guilds : /\ wr[g].pc = "replace" /\ wr[g].path = f
                              /\ disk'[f] = wr[g].text ]_vars

\* the default file holds the complete text of the poller of guild 2 while
\* the poller of guild 1 has written a part of another text into the
\* temporary file, its own file holding an earlier text
C26_Witness ==
  /\ disk["D"] = MirrorText(OtherTail)
  /\ wr[1].pc = "write" /\ wr[1].path = "D"
  /\ disk["D.tmp"] # <<>> /\ Len(disk["D.tmp"]) < Len(wr[1].text)
  /\ disk["G1"] # <<>> /\ disk["G1"] # wr[1].text

\* the step hands a line to the callback
HandsOver ==
  pc \in {"read", "http", "dispatch"} /\ pc' = "dispatch" /\ cyc' # cyc

\* q with x put at its end and, if that makes more than n, without its
\* first element
Pushed(q, x, n) ==
  LET q1 == q \o <<x>>
  IN IF Len(q1) <= n THEN q1 ELSE [i \in 1..n |-> q1[i + 1]]

\* C27: in a run of the loop mirror_tail is a bounded queue of the lines
\* handed on: it never holds more than MIRROR_MAX_LINES lines; each line
\* that passes the de-duplication and goes to the callback is put at its
\* end, once, in that order, the oldest line leaving when it is full; and
\* after the priming at the start nothing else changes it
C27_MirrorIsBoundedFifo ==
  /\ [](Len(mirror.tail) <= MIRROR_MAX_LINES)
  /\ [][ /\ HandsOver =>
              mirror'.tail = Pushed(mirror.tail, cyc'.line, MIRROR_MAX_LINES)
         /\ (mirror'.tail # mirror.tail) => (HandsOver \/ pc = "idle") ]_vars

\* a line is in the callback and it took the place of the oldest line of a
\* full mirror_tail, in a run that had been primed from the mirror files
C27_Witness ==
  /\ pc = "dispatch" /\ runs = 2 /\ mirror.dirty
  /\ Len(mirror.tail) = MIRROR_MAX_LINES
  /\ mirror.tail[MIRROR_MAX_LINES] = cyc.line
  /\ Len(SplitLines(mirror.own)) + Len(SplitLines(mirror.default)) >= MIRROR_MAX_LINES

\* C28: a loop starts with the tail of the mirror file of its guild in
\* mirror_tail, so that a restart adds no line and repeats none.  Stated for
\* a start that finds the default file and the file of the guild with the
\* same text, as the last mirror write of the loop itself leaves them (a
\* file that cannot be read counts as not there)
C28_RestartKeepsMirror ==
  [][ (pc = "idle" /\ pc' = "connect" /\ mirror.default = mirror.own) =>
        \/ mirror'.tail = LastN(SplitLines(mirror.own), MIRROR_MAX_LINES)
        \/ mirror'.tail = <<>> ]_vars

\* C29: the offset of a batch is persisted only after the lines of the
\* batch have been handed to the callback: while a line of the batch is in
\* the callback the store still holds the offset the batch started from
C29_DispatchBeforePersist ==
  pc = "dispatch" => store.offset = cyc.prev_offset

\* the position the loop holds in memory
InMemory == [latest_file |-> latest_file, offset |-> offset]

\* C30: every step of the loop that changes its active filename or its
\* offset (switch, truncation reset, advance) writes the new values to the
\* Poll State in the same step, and whenever the loop sleeps with a file
\* chosen the persisted Poll State equals the values in memory
C30_PositionPersistedInStep ==
  /\ []((pc \in {"sleep", "wake"} /\ latest_file # None) => store = InMemory)
  /\ [][ (pc # "idle" /\ InMemory' # InMemory) => store' = InMemory' ]_vars

\* the loop sleeps after a fetch that advanced the offset, with the file
\* and the new offset in the Poll State
C30_Witness ==
  /\ pc = "sleep"
  /\ latest_file # None
  /\ event = "advance"
  /\ offset > 0
  /\ store = InMemory

\* q with its first d elements dropped
DropFirst(q, d) == SubSeq(q, d + 1, Len(q))

\* p is the beginning of q
IsPrefix(p, q) == Len(p) <= Len(q) /\ SubSeq(q, 1, Len(p)) = p

\* after is what a FIFO window of capacity n makes of before: elements were
\* appended at the end, elements left at the front only, and only with the
\* window up to its capacity
FifoStep(before, after, n) ==
  \E d \in 0..Len(before) :
     /\ IsPrefix(DropFirst(before, d), after)
     /\ d > 0 => Len(after) = n

\* C31: the fingerprint layer holds at most MAX_SEEN_HASHES fingerprints,
\* the fingerprint set is the set of the elements of the fingerprint queue
\* and none is in the queue twice, and a step of a running loop changes the
\* queue as a FIFO window does: it appends, and it drops the oldest entries
\* only when the capacity is exceeded; the recent-line buffer holds at most
\* MAX_REMEMBER lines and changes in the same way
C31_FifoWindows ==
  /\ [](/\ Len(seen_queue) <= MAX_SEEN_HASHES
        /\ seen_set = Range(seen_queue)
        /\ Cardinality(seen_set) = Len(seen_queue)
        /\ Len(last) <= MAX_REMEMBER)
  /\ [][ pc # "idle" =>
           /\ FifoStep(seen_queue, seen_queue', MAX_SEEN_HASHES)
           /\ FifoStep(last, last', MAX_REMEMBER) ]_vars

\* both layers are full and have evicted: the first fingerprint the window
\* accepted in this run is no longer in it, nor its line in the buffer
C31_Witness ==
  /\ pc = "dispatch"
  /\ Len(hist) = MAX_SEEN_HASHES + 1
  /\ \A i \in 1..Len(hist) : hist[i].disp
  /\ Len(seen_queue) = MAX_SEEN_HASHES
  /\ hist[1].fp \notin seen_set
  /\ Len(last) = MAX_REMEMBER
  /\ hist[1].fp \notin Range(last)

\* the step of a range read from an offset above 0 in which the server
\* refused REST because of ASCII mode
AsciiRefusal ==
  /\ pc = "read"
  /\ pc' # "read"
  /\ offset > 0
  /\ answers'.rest1 = "ascii"

\* the read sent TYPE I and REST a second time, and no third time; a retry
\* that succeeds gives the bytes of the file from the offset on, which the
\* offset then advances over; a retry that is refused gives no bytes,
\* raises nothing and leaves the offset where it was
RetriedOnce ==
  AsciiRefusal =>
    LET out == answers'.out IN
    /\ out.sent = [types |-> 2, rests |-> 2]
    /\ (answers'.rest2 = "ok" /\ answers'.retr = "ok") =>
          /\ ~out.raised
          /\ out.data = SliceFrom(remote[latest_file], offset)
          /\ event' = "advance" => offset' = offset + Len(out.data)
          /\ (event' # "failed" /\ out.data # <<>>) => event' = "advance"
    /\ answers'.rest2 = "refused" =>
          /\ ~out.raised
          /\ out.data = <<>>
          /\ offset' = offset
          /\ event' # "advance"

\* the HTTP download ends in a cycle whose retried REST was refused
AfterRefusedRetry ==
  /\ pc = "http"
  /\ pc' # "http"
  /\ answers.start > 0
  /\ answers.rest1 = "ascii"
  /\ answers.rest2 = "refused"

\* C32 as stated: a REST refused for ASCII mode is retried exactly once in
\* binary mode; if the retry succeeds the read goes on from the requested
\* offset, and if it is refused the fetch gives zero bytes, raises nothing
\* and the cycle leaves the offset unchanged
C32_RefusedRetryKeepsOffset ==
  [][ /\ RetriedOnce
      /\ AfterRefusedRetry => offset' = offset ]_vars

\* C32 amended: as above, but after a refused retry the cycle leaves the
\* offset unchanged only if the HTTP fallback is not used or delivers
\* nothing; when it delivers bytes the offset becomes the size of the
\* download
C32_RefusedRetryThenFallback ==
  [][ /\ RetriedOnce
      /\ AfterRefusedRetry =>
            \/ offset' = offset
            \/ /\ event' = "advance"
               /\ cyc'.full_fetch_used
               /\ offset' = Len(remote[latest_file])
               /\ offset' > offset ]_vars

\* a cycle whose retried REST was refused took the bytes from the HTTP
\* download and advanced the offset
C32_Witness ==
  /\ answers.asked
  /\ answers.start > 0
  /\ answers.rest1 = "ascii"
  /\ answers.rest2 = "refused"
  /\ answers.out.data = <<>>
  /\ event = "advance"
  /\ cyc.full_fetch_used
  /\ offset > answers.start

\* the step that ends the fetch of a cycle with an empty delta: the range
\* read gave no bytes (or raised, which leaves the blob empty) and the HTTP
\* download, if there was one, failed or had no bytes past the offset
EmptyDelta ==
  /\ pc \in {"read", "http"}
  /\ pc' \notin {"read", "http"}
  /\ answers'.out.data = <<>>
  /\ answers'.http # "bytes"

\* the mirror files change by the write of a mirror that was left dirty
MirrorOnlyFlushed ==
  \/ mirror' = mirror
  \/ mirror.dirty /\ \E w \in WriteOutcomes : mirror' = MirrorFlush(mirror, w)

\* C33: a cycle whose fetch gives an empty delta changes nothing in its
\* fetch and dispatch steps: offset and filename in memory and in the Poll
\* State, the fingerprint window, the recent-line buffer and the lines of
\* the mirror stay as they were, and no line goes to the callback
C33_EmptyDeltaChangesNothing ==
  [][ EmptyDelta =>
        /\ <<latest_file, offset, store>>' = <<latest_file, offset, store>>
        /\ <<seen_queue, seen_set, last>>' = <<seen_queue, seen_set, last>>
        /\ mirror'.tail = mirror.tail
        /\ MirrorOnlyFlushed
        /\ handed' = handed
        /\ pc' # "dispatch" ]_vars

\* a cycle ended with an empty delta after the HTTP download was tried, in
\* a loop that had dispatched lines before
C33_Witness ==
  /\ pc = "sleep"
  /\ event = "none"
  /\ answers.asked
  /\ answers.out.data = <<>>
  /\ answers.http = "empty"
  /\ offset > 0
  /\ seen_queue # <<>>
  /\ mirror.tail # <<>>

\* C34: a mirror that changed during a cycle is written to its files
\* before the loop sleeps, also when the cycle ends in the exception
\* handler (the callback or a later step raised): the loop never sleeps
\* after an exception with accepted lines that were not written
C34_NothingUnflushedInSleep ==
  (pc = "sleep" /\ event = "failed") => ~mirror.dirty

\* the poll loop tasks that were created and have not ended
Live == { k \in 1..MaxTasks : tasks[k] \in {"created", "looping"} }

\* C35: every live poll loop task is the task the registry records for the
\* target, with its own stop event next to it: no handler removes the
\* entry of a task other than the one it stopped, so every running loop
\* can be reached by a later stop request
C35_LiveTaskIsRegistered ==
  \A k \in Live : poll_tasks = k /\ poll_stops = k

\* C36: every line handed to the callback is a complete line of the remote
\* file: when the file consists of complete lines, the line that is in the
\* callback is one of them, and not a piece of one that a fetch cut off
C36_OnlyCompleteLines ==
  (pc = "dispatch" /\ EndsLine(remote[latest_file])) =>
     cyc.line \in Range(SplitLines(Decode(remote[latest_file])))

\* C37: in every state of the poll loop, a line that is not empty and that
\* the fingerprint layer would accept is not rejected by the recent-line
\* buffer: the buffer holds no line whose fingerprint has left the window
C37_LayersAgree ==
  \A l \in DedupLines :
     (RememberLine(seen_queue, seen_set, l).ok /\ RstripEol(l) # <<>>) =>
        Accept(last, l).ok

\* both layers are full, the buffer has dropped a line that the window
\* still holds, and an empty line passed the window and not the buffer
C37_Witness ==
  /\ pc = "dispatch"
  /\ Len(seen_queue) = MAX_SEEN_HASHES
  /\ Len(last) = MAX_REMEMBER
  /\ \E fp \in seen_set :
        fp # <<>> /\ \A i \in 1..Len(last) : LineFingerprint(last[i]) # fp
  /\ \E i \in 1..Len(hist) : ~hist[i].disp

\* C38: every connection opened in a cycle is closed before the loop
\* sleeps, on every path through the iteration: the loop is never in its
\* sleep with the connection of the iteration open
C38_ConnectionClosedInSleep ==
  pc \in {"sleep", "wake"} => ftp # "open"

\* the points of a sequence
Points(q) == { q[i] : i \in 1..Len(q) }

\* C39: a flush never drops a queued point: after a step each point that
\* was in the queue is in the track_file file or still in the queue, unless the
\* per-player maximum pushed it out of the file
C39_FlushDropsNothing ==
  [][ \A p \in Points(buffers) :
        \/ p \in Points(buffers')
        \/ Stored(p) \in Points(track_file')
        \/ Stored(p) \notin
             Points(LastN(track_file \o StoredAll(buffers), MAX_POINTS_PER_PLAYER))
    ]_vars

====
